---- MODULE Spec2Model ----
(***************************************************************************)
(* A model of the district analytics repository:                          *)
(*   - the "Validate, Merge & Retrain" upload handler of main.py with the  *)
(*     validation functions of data_cleanning.py and the trainer of        *)
(*     train_model.py (specification Spec);                                *)
(*   - the standalone validation script of data_cleanning.py               *)
(*     (specification SpecScript);                                         *)
(*   - the name normalisation clean_data of "Cleaned Data/Data             *)
(*     Cleaning.py" (specification SpecClean) and its aggregation          *)
(*     (specification SpecAgg).                                            *)
(* Strings are TLA+ strings handled character by character with Len,       *)
(* SubSeq and \o.                                                          *)
(***************************************************************************)
EXTENDS Integers, Sequences, FiniteSets, TLC

VARIABLES
    \* ---- upload handler (main.py) ----
    master,         \* Dataset_Cleaned.csv: [exists, cols, rows]
    districtFile,   \* districts.txt: [exists, lines]
    new_data,       \* the uploaded batch: [cols, rows]
    masterBefore,   \* the master as it was when the button was pressed
    outcome,        \* how the last pass ended
    checksRun,      \* the validation checks the last pass called, in order
    report,         \* what the last pass printed: [missing, extra, unknown]
    model,          \* biometric_model_v1.pkl: [exists, trainedOn]
    \* ---- standalone validation script (data_cleanning.py __main__) ----
    df,             \* the dataset the script loaded
    scriptPc,       \* the script's position
    scriptOutcome,  \* "running", "rejected" (a ValueError ended it) or "passed"
    scriptChecks,   \* the checks the script called, in order
    scriptReport,   \* what the script printed: [unknown, negatives]
    \* ---- clean_data on one record (Data Cleaning.py) ----
    cleanIn,        \* the raw record: [state, district]
    cdf,            \* the DataFrame being cleaned: a sequence of records
    cleanPc,        \* the stage clean_data is at
    cleanPasses,    \* the calls of clean_data completed
    cleanFirst,     \* the DataFrame the first call returned
    \* ---- the analysis run (Data Cleaning.py, main execution) ----
    batchA,         \* the rows of one group of raw files, each tagged with its category
    batchB,         \* the rows of a second group of raw files
    enrol_df,       \* the enrolment DataFrame
    demo_df,        \* the demographic DataFrame
    bio_df,         \* the biometric DataFrame
    aggPc,          \* the run's position
    master_ts,      \* what export_monthly_data returned
    metrics_df,     \* what calculate_metrics returned
    full_df,        \* what export_full_district_data returned
    \* ---- process_final_data (Data Cleaning.py) ----
    full_csv,       \* aadhaar_district_analytics_full.csv: the rows of the aggregate file
    csv_df,         \* the DataFrame read from the file, then cleaned
    final_df,       \* the merged DataFrame, one row per (state, district)
    finalPc,        \* the position of process_final_data
    \* ---- two browser sessions on the upload handler (main.py) ----
    sessions        \* per session: [pc, new_data, master_df, outcome]

uploadVars == <<master, districtFile, new_data, masterBefore, outcome, checksRun, report, model>>
scriptVars == <<df, scriptPc, scriptOutcome, scriptChecks, scriptReport>>
cleanVars == <<cleanIn, cdf, cleanPc, cleanPasses, cleanFirst>>
aggVars == <<batchA, batchB, enrol_df, demo_df, bio_df, aggPc, master_ts, metrics_df, full_df>>
finalVars == <<full_csv, csv_df, final_df, finalPc>>
vars == <<uploadVars, scriptVars, cleanVars, aggVars, finalVars, sessions>>

(***************************************************************************)
(* Bounds of the model.                                                    *)
(***************************************************************************)
MaxRows == 2        \* rows of one uploaded batch
MaxMaster == 3      \* rows the master table holds at most
MaxPasses == 2      \* calls of clean_data on one DataFrame

(***************************************************************************)
(* Cells, rows and tables (pandas DataFrame read from CSV).                *)
(***************************************************************************)
Null == [k |-> "null", s |-> "", n |-> 0]
Str(x) == [k |-> "str", s |-> x, n |-> 0]
Num(x) == [k |-> "num", s |-> "", n |-> x]

\* str(value) of a cell, as Series.astype(str) gives it.
AsStr(c) ==
    CASE c.k = "str" -> c.s
      [] c.k = "null" -> "nan"
      [] c.k = "num" /\ c.n = -1 -> "-1"
      [] c.k = "num" /\ c.n = 0 -> "0"
      [] c.k = "num" /\ c.n = 1 -> "1"
      [] OTHER -> "2025"

\* str.strip(): leading and trailing blanks removed.
RECURSIVE LStrip(_)
LStrip(s) == IF Len(s) > 0 /\ SubSeq(s, 1, 1) = " " THEN LStrip(SubSeq(s, 2, Len(s))) ELSE s
RECURSIVE RStrip(_)
RStrip(s) == IF Len(s) > 0 /\ SubSeq(s, Len(s), Len(s)) = " " THEN RStrip(SubSeq(s, 1, Len(s) - 1)) ELSE s
Strip(s) == RStrip(LStrip(s))

StdCols == {"state", "district", "year", "month", "Bio_bio_age_5_17", "Bio_bio_age_17_"}
ColumnSets ==
    {StdCols, StdCols \ {"district"}, StdCols \cup {"remarks"},
     (StdCols \ {"district"}) \cup {"remarks"}}

\* The cells a row of an uploaded file holds in its three columns of interest.
DistrictCells == {Str(" Agra "), Str("Foo"), Str(" ")}
Bio5Cells == {Num(1), Str("?"), Null}
Bio17Cells == {Num(1), Num(-1)}

RowOf(cols, d, b5, b17) ==
    [c \in cols |->
        CASE c = "district" -> d
          [] c = "Bio_bio_age_5_17" -> b5
          [] c = "Bio_bio_age_17_" -> b17
          [] c = "state" -> Str("Uttar Pradesh")
          [] c = "year" -> Num(2025)
          [] c = "month" -> Num(1)
          [] OTHER -> Str("x")]

Rows(cols) ==
    {RowOf(cols, d, b5, b17) :
        d \in (IF "district" \in cols THEN DistrictCells ELSE {Null}),
        b5 \in Bio5Cells, b17 \in Bio17Cells}

RECURSIVE SeqsUpTo(_, _)
SeqsUpTo(S, n) ==
    IF n = 0 THEN {<<>>}
    ELSE LET shorter == SeqsUpTo(S, n - 1)
         IN shorter \cup {Append(q, x) : q \in {p \in shorter : Len(p) = n - 1}, x \in S}

\* The tables a user can upload: one to MaxRows rows over one column set.
Batches ==
    UNION {{[cols |-> cs, rows |-> rs] : rs \in SeqsUpTo(Rows(cs), MaxRows) \ {<<>>}} : cs \in ColumnSets}

Cells(t) == {t.rows[i][c] : i \in 1..Len(t.rows), c \in t.cols}

(***************************************************************************)
(* data_cleanning.py: the validation functions.  Each returns what the     *)
(* call does: raised (a ValueError ended it) and what it printed.          *)
(***************************************************************************)
\* inspect_nulls: df.isnull().sum().sum() > 0 raises.
inspect_nulls_never_raises(t) == FALSE
inspect_nulls(t) == \E c \in Cells(t) : c.k = "null"

\* check_placeholders: a cell whose str() is exactly '?' or ' ' raises.
placeholders == {"?", " "}
check_placeholders(t) == \E c \in Cells(t) : AsStr(c) \in placeholders

\* districts.txt as validate_districts reads it: the stripped non-empty lines.
valid_districts(f) == {Strip(f.lines[i]) : i \in {j \in 1..Len(f.lines) : Strip(f.lines[j]) # ""}}

\* validate_districts: the districts of the table, stripped, that are not in the
\* file; the call returns without checking when the column or the file is missing.
unknown_districts_unstripped(t, f) ==
    IF "district" \notin t.cols \/ ~f.exists THEN {}
    ELSE {AsStr(t.rows[i]["district"]) : i \in 1..Len(t.rows)} \ valid_districts(f)
unknown_districts(t, f) ==
    IF "district" \notin t.cols \/ ~f.exists THEN {}
    ELSE {Strip(AsStr(t.rows[i]["district"])) : i \in 1..Len(t.rows)} \ valid_districts(f)
validate_districts(t, f) == unknown_districts(t, f) # {}

\* check_numeric_logic: counts the negative cells of its target columns and
\* prints them; it has no raise statement.
target_cols == {"year", "month", "Bio_bio_age_5_17", "Bio_bio_age_17_"}
neg_counts(t) ==
    {c \in target_cols \cap t.cols : \E i \in 1..Len(t.rows) : t.rows[i][c].k = "num" /\ t.rows[i][c].n < 0}
check_numeric_logic(t) == FALSE

(***************************************************************************)
(* main.py: the "Validate, Merge & Retrain" button.                        *)
(***************************************************************************)
numeric_cols == {"Bio_bio_age_5_17", "Bio_bio_age_17_"}
\* (new_data[existing_numeric] < 0).any().any()
has_negative(t) ==
    \E c \in numeric_cols \cap t.cols : \E i \in 1..Len(t.rows) :
        t.rows[i][c].k = "num" /\ t.rows[i][c].n < 0

\* train_model.py, train_and_save_model: the columns it indexes.
features_and_targets == {"state", "district", "year", "month", "Bio_bio_age_5_17", "Bio_bio_age_17_"}

NoReport == [missing |-> {}, extra |-> {}, unknown |-> {}]

\* The validation block, lines 390-405: the checks called, in order, up to the
\* first that raises, and the error the pass ends with ("" when all pass).
ValidationDistrictsBeforeNumeric(t, f) ==
    CASE inspect_nulls(t) ->
            [calls |-> <<"inspect_nulls">>, error |-> "null_values", unknown |-> {}]
      [] check_placeholders(t) ->
            [calls |-> <<"inspect_nulls", "check_placeholders">>,
             error |-> "placeholders", unknown |-> {}]
      [] f.exists /\ validate_districts(t, f) ->
            [calls |-> <<"inspect_nulls", "check_placeholders", "validate_districts">>,
             error |-> "unknown_districts", unknown |-> unknown_districts(t, f)]
      [] has_negative(t) ->
            [calls |-> <<"inspect_nulls", "check_placeholders">>
                        \o (IF f.exists THEN <<"validate_districts">> ELSE <<>>)
                        \o <<"negative_values">>,
             error |-> "negative_values", unknown |-> {}]
      [] OTHER ->
            [calls |-> <<"inspect_nulls", "check_placeholders">>
                        \o (IF f.exists THEN <<"validate_districts">> ELSE <<>>)
                        \o <<"negative_values">>,
             error |-> "", unknown |-> {}]
Validation(t, f) ==
    CASE inspect_nulls(t) ->
            [calls |-> <<"inspect_nulls">>, error |-> "null_values", unknown |-> {}]
      [] check_placeholders(t) ->
            [calls |-> <<"inspect_nulls", "check_placeholders">>,
             error |-> "placeholders", unknown |-> {}]
      [] has_negative(t) ->
            [calls |-> <<"inspect_nulls", "check_placeholders", "negative_values">>,
             error |-> "negative_values", unknown |-> {}]
      [] f.exists /\ validate_districts(t, f) ->
            [calls |-> <<"inspect_nulls", "check_placeholders", "negative_values",
                         "validate_districts">>,
             error |-> "unknown_districts", unknown |-> unknown_districts(t, f)]
      [] OTHER ->
            [calls |-> <<"inspect_nulls", "check_placeholders", "negative_values">>
                        \o (IF f.exists THEN <<"validate_districts">> ELSE <<>>),
             error |-> "", unknown |-> {}]

\* Lines 364-386: the column sets differ from the master's.
column_mismatch_ignores_extra(m, t) == m.exists /\ (m.cols \ t.cols) # {}
column_mismatch(m, t) == m.exists /\ m.cols # t.cols

\* Lines 407-416: pd.concat([master_df, new_data]) written to the master path.
merge(m, t) ==
    IF m.exists THEN [exists |-> TRUE, cols |-> m.cols, rows |-> m.rows \o t.rows]
    ELSE [exists |-> TRUE, cols |-> t.cols, rows |-> t.rows]

NoMaster == [exists |-> FALSE, cols |-> {}, rows |-> <<>>]
NoUpload == [cols |-> {}, rows |-> <<>>]
NoModel == [exists |-> FALSE, trainedOn |-> <<>>]

\* The whole pass of the button, lines 362-426, on master m, uploaded table t,
\* district file f and model file mo: the files and the messages after it.
Pass(m, t, f, mo) ==
    IF column_mismatch(m, t)
    THEN \* st.error, the missing and extra columns, st.stop()
         [master |-> m, model |-> mo, outcome |-> "column_mismatch", calls |-> <<>>,
          report |-> [missing |-> m.cols \ t.cols, extra |-> t.cols \ m.cols, unknown |-> {}]]
    ELSE LET v == Validation(t, f) IN
         IF v.error # ""
         THEN \* except ValueError: "Validation Failed"
              [master |-> m, model |-> mo, outcome |-> v.error, calls |-> v.calls,
               report |-> [missing |-> {}, extra |-> {}, unknown |-> v.unknown]]
         ELSE LET updated == merge(m, t) IN
              IF features_and_targets \subseteq updated.cols
              THEN [master |-> updated,
                    model |-> [exists |-> TRUE, trainedOn |-> updated.rows],
                    outcome |-> "retrained", calls |-> v.calls, report |-> NoReport]
              ELSE \* KeyError in train_and_save_model, caught by except Exception
                   [master |-> updated, model |-> mo,
                    outcome |-> "unexpected_error", calls |-> v.calls, report |-> NoReport]

\* districts.txt, when it is there.
DistrictLines == <<"Agra ", "", "Pune">>

\* A master table that a first deployment ships with.
ShippedMaster == [exists |-> TRUE, cols |-> StdCols, rows |-> <<RowOf(StdCols, Str("Agra"), Num(0), Num(1))>>]

NoScriptReport == [unknown |-> {}, negatives |-> {}]

ScriptIdle ==
    /\ df = NoUpload
    /\ scriptPc = "idle"
    /\ scriptOutcome = "idle"
    /\ scriptChecks = <<>>
    /\ scriptReport = NoScriptReport

CleanIdle ==
    /\ cleanIn = [state |-> "", district |-> ""]
    /\ cdf = <<>>
    /\ cleanPc = "idle"
    /\ cleanPasses = 0
    /\ cleanFirst = <<>>

\* A table with no rows.
NoTable == <<>>

AggIdle ==
    /\ batchA = <<>>
    /\ batchB = <<>>
    /\ enrol_df = <<>>
    /\ demo_df = <<>>
    /\ bio_df = <<>>
    /\ aggPc = "idle"
    /\ master_ts = NoTable
    /\ metrics_df = NoTable
    /\ full_df = NoTable

FinalIdle ==
    /\ full_csv = <<>>
    /\ csv_df = <<>>
    /\ final_df = NoTable
    /\ finalPc = "idle"

\* No second session: the handler runs alone.
NoSessions == <<>>

Init ==
    /\ master \in {NoMaster, ShippedMaster}
    /\ districtFile \in {[exists |-> e, lines |-> DistrictLines] : e \in BOOLEAN}
    /\ new_data = NoUpload
    /\ masterBefore = master
    /\ outcome = "none"
    /\ checksRun = <<>>
    /\ report = NoReport
    /\ model = NoModel
    /\ ScriptIdle
    /\ CleanIdle
    /\ AggIdle
    /\ FinalIdle
    /\ sessions = NoSessions

\* st.file_uploader: the user picks a CSV file.
Upload ==
    /\ new_data = NoUpload
    /\ \E b \in Batches :
        /\ Len(master.rows) + Len(b.rows) <= MaxMaster
        /\ new_data' = b
    /\ masterBefore' = master
    /\ outcome' = "none"
    /\ checksRun' = <<>>
    /\ report' = NoReport
    /\ UNCHANGED <<master, districtFile, model, scriptVars, cleanVars, aggVars, finalVars, sessions>>

\* st.button("Validate, Merge & Retrain") pressed on the uploaded file.
ValidateMergeRetrain ==
    /\ new_data # NoUpload
    /\ outcome = "none"
    /\ LET r == Pass(master, new_data, districtFile, model) IN
        /\ master' = r.master
        /\ model' = r.model
        /\ outcome' = r.outcome
        /\ checksRun' = r.calls
        /\ report' = r.report
    /\ masterBefore' = master
    /\ UNCHANGED <<districtFile, new_data, scriptVars, cleanVars, aggVars, finalVars, sessions>>

\* The user removes the file from the uploader: the page shows no pass.
ClearUpload ==
    /\ new_data # NoUpload
    /\ outcome # "none"
    /\ new_data' = NoUpload
    /\ masterBefore' = master
    /\ outcome' = "none"
    /\ checksRun' = <<>>
    /\ report' = NoReport
    /\ UNCHANGED <<master, districtFile, model, scriptVars, cleanVars, aggVars, finalVars, sessions>>

Next == Upload \/ ValidateMergeRetrain \/ ClearUpload

Spec == Init /\ [][Next]_vars

(***************************************************************************)
(* data_cleanning.py run as a script, lines 124-137: the four checks in    *)
(* order on the loaded dataset; an uncaught ValueError ends the script.    *)
(***************************************************************************)
UploadIdle ==
    /\ master = NoMaster
    /\ new_data = NoUpload
    /\ masterBefore = NoMaster
    /\ outcome = "none"
    /\ checksRun = <<>>
    /\ report = NoReport
    /\ model = NoModel

InitScript ==
    /\ UploadIdle
    /\ districtFile \in {[exists |-> e, lines |-> DistrictLines] : e \in BOOLEAN}
    /\ df \in Batches
    /\ scriptPc = "inspect_nulls"
    /\ scriptOutcome = "running"
    /\ scriptChecks = <<>>
    /\ scriptReport = NoScriptReport
    /\ CleanIdle
    /\ AggIdle
    /\ FinalIdle
    /\ sessions = NoSessions

\* One call of the script: raised ends it as rejected, otherwise it moves on.
ScriptCall(name, raised, next) ==
    /\ scriptPc = name
    /\ scriptChecks' = Append(scriptChecks, name)
    /\ scriptPc' = IF raised THEN "aborted" ELSE next
    /\ scriptOutcome' = IF raised THEN "rejected" ELSE IF next = "done" THEN "passed" ELSE "running"
    /\ UNCHANGED <<df, uploadVars, cleanVars, aggVars, finalVars, sessions>>

ScriptInspectNulls ==
    /\ ScriptCall("inspect_nulls", inspect_nulls(df), "check_placeholders")
    /\ UNCHANGED scriptReport

ScriptCheckPlaceholders ==
    /\ ScriptCall("check_placeholders", check_placeholders(df), "validate_districts")
    /\ UNCHANGED scriptReport

ScriptValidateDistricts ==
    /\ ScriptCall("validate_districts", validate_districts(df, districtFile), "check_numeric_logic")
    /\ scriptReport' = [scriptReport EXCEPT !.unknown = unknown_districts(df, districtFile)]

ScriptCheckNumericLogic ==
    /\ ScriptCall("check_numeric_logic", check_numeric_logic(df), "done")
    /\ scriptReport' = [scriptReport EXCEPT !.negatives = neg_counts(df)]

NextScript ==
    \/ ScriptInspectNulls
    \/ ScriptCheckPlaceholders
    \/ ScriptValidateDistricts
    \/ ScriptCheckNumericLogic

SpecScript == InitScript /\ [][NextScript]_vars

(***************************************************************************)
(* "Cleaned Data/Data Cleaning.py", clean_data.  A record is a row of the  *)
(* DataFrame with its state and district; the character "~" stands for    *)
(* one non-ASCII character (no name of the source holds a "~").            *)
(***************************************************************************)
\* A dict literal: the value of the last item with key k.
Dict(items) ==
    [k \in {items[i][1] : i \in DOMAIN items} |->
        items[CHOOSE i \in DOMAIN items :
                /\ items[i][1] = k
                /\ \A j \in DOMAIN items : items[j][1] = k => j <= i][2]]
Keys(items) == {items[i][1] : i \in DOMAIN items}
Values(items) == {items[i][2] : i \in DOMAIN items}
\* Series.replace(dict): a value that is a key becomes its value, once.
Replace(map, x) == IF x \in DOMAIN map THEN map[x] ELSE x

RECURSIVE DeleteChar(_, _)
DeleteChar(s, ch) ==
    IF Len(s) = 0 THEN ""
    ELSE (IF SubSeq(s, 1, 1) = ch THEN "" ELSE SubSeq(s, 1, 1)) \o DeleteChar(SubSeq(s, 2, Len(s)), ch)

\* Line 63: the characters outside \x00-\x7F removed.
remove_non_ascii(s) == DeleteChar(s, "~")
\* Lines 66-68: '*' removed, whitespace trimmed, the merged name fixed.
basic_cleanup(s) ==
    LET x == Strip(DeleteChar(s, "*"))
    IN IF x = "ManendragarhChirmiriBharatpur" THEN "Manendragarh-Chirmiri-Bharatpur" ELSE x
lexical_cleanup(d) == basic_cleanup(remove_non_ascii(d))

state_map_items ==
    <<
    <<"WEST BENGAL", "West Bengal">>, <<"WESTBENGAL", "West Bengal">>,
    <<"West bengal", "West Bengal">>, <<"Westbengal", "West Bengal">>,
    <<"West Bengli", "West Bengal">>, <<"west Bengal", "West Bengal">>,
    <<"West  Bengal", "West Bengal">>, <<"West Bangal", "West Bengal">>,
    <<"odisha", "Odisha">>, <<"ODISHA", "Odisha">>, <<"Orissa", "Odisha">>,
    <<"andhra pradesh", "Andhra Pradesh">>,
    <<"Andaman & Nicobar Islands", "Andaman and Nicobar Islands">>,
    <<"Dadra & Nagar Haveli", "Dadra and Nagar Haveli and Daman and Diu">>,
    <<"Dadra and Nagar Haveli", "Dadra and Nagar Haveli and Daman and Diu">>,
    <<"Daman & Diu", "Dadra and Nagar Haveli and Daman and Diu">>,
    <<"Daman and Diu", "Dadra and Nagar Haveli and Daman and Diu">>,
    <<"The Dadra And Nagar Haveli And Daman And Diu", "Dadra and Nagar Haveli and Daman and Diu">>,
    <<"Pondicherry", "Puducherry">>, <<"Uttaranchal", "Uttarakhand">>,
    <<"Tamilnadu", "Tamil Nadu">>, <<"Chhatisgarh", "Chhattisgarh">>,
    <<"Telanana", "Telangana">>, <<"100000", "Unknown">>, <<"Jaipur", "Rajasthan">>,
    <<"Nagpur", "Maharashtra">>, <<"Darbhanga", "Bihar">>, <<"Madanapalle", "Andhra Pradesh">>,
    <<"BALANAGAR", "Telangana">>, <<"Puttenahalli", "Karnataka">>,
    <<"Raja Annamalai Puram", "Tamil Nadu">>
    >>

ts_districts ==
    {
    "Adilabad", "Hyderabad", "K.V RANGAEEDDY", "Karimnagar", "Khammam", "Mahabubnagar",
    "Medak", "Nalgonda", "Nizamabad", "Rangareddi", "Warangal", "Warangal(urban)",
    "Warangal(rural)", "Jagitial", "Jangaon", "Jayashankar Bhupalpally", "Jogulamba Gadwal",
    "Kamareddy", "Komaram Bheem Asifabad", "Mahabubabad", "Mancherial", "Medchal~Malkajgiri",
    "Mulugu", "Nagarkurnool", "Narayanpet", "Nirmal", "Peddapalli", "Rajanna Sircilla",
    "Sangareddy", "Siddipet", "Suryapet", "Vikarabad", "Wanaparthy", "Yadadri"
    }

district_map_items ==
    <<
    <<"Bardhaman", "Purba Bardhaman">>, <<"Burdwan", "Purba Bardhaman">>,
    <<"CoochBehar", "Cooch Behar">>, <<"Coochbehar", "Cooch Behar">>,
    <<"South Dinajpur", "Dakshin Dinajpur">>, <<"North Dinajpur", "Uttar Dinajpur">>,
    <<"Domjur", "Howrah">>, <<"East Midnapore", "Purba Medinipur">>,
    <<"West Medinipur", "Paschim Medinipur">>, <<"Medinipur", "Paschim Medinipur">>,
    <<"Medinipur West", "Paschim Medinipur">>, <<"Naihati Anandbazar", "North 24 Parganas">>,
    <<"Naihati Anandabazar", "North 24 Parganas">>,
    <<"Nortg 24 praganas", "North 24 Parganas">>, <<"South 24 praganas", "South 24 Parganas">>,
    <<"Garhwal", "Pauri Garhwal">>, <<"Allahabad", "Prayagraj">>, <<"Faizabad", "Ayodhya">>,
    <<"Sant Ravidas Nagar", "Bhadohi">>, <<"Sant Ravidas Nagar Bhadohi", "Bhadohi">>,
    <<"Baghpat", "Baghpat">>, <<"Barabanki", "Barabanki">>, <<"Kushinagar", "Kushinagar">>,
    <<"Maharajganj", "Maharajganj">>, <<"Raebareli", "Raebareli">>,
    <<"Shravasti", "Shravasti">>, <<"Siddharthnagar", "Siddharthnagar">>,
    <<"IDPL COLONY", "Unknown">>, <<"Jagitial", "Jagtial">>, <<"Jangaon", "Jangaon">>,
    <<"K.v. Rangareddy", "Ranga Reddy">>, <<"K.V RANGAEEDDY", "Ranga Reddy">>,
    <<"Rangareddy", "Ranga Reddy">>, <<"Komaram Bheem Asifabad", "Komaram Bheem">>,
    <<"Medchal~Malkajgiri", "Medchal Malkajgiri">>, <<"Warangal(urban)", "Hanumakonda">>,
    <<"Warangal(rural)", "Warangal">>, <<"Yadadri", "Yadadri Bhuvanagiri">>,
    <<"Andamans", "South Andaman">>, <<"Nicobars", "Nicobar">>,
    <<"Ananthapur", "Ananthapuramu">>, <<"Cuddapah", "YSR Kadapa">>,
    <<"Chittoor", "Chittoor">>, <<"Shiyomi", "Shi Yomi">>,
    <<"Pakke-Kessang", "Pakke Kessang">>, <<"Kra-Daadi", "Kra Daadi">>,
    <<"Kamrup Metropolitan", "Kamrup Metro">>,
    <<"South Salmara-Mankachar", "South Salmara Mankachar">>,
    <<"Chhatrapati Sambhajinagar", "Chatrapati Sambhaji Nagar">>,
    <<"Kaimur", "Kaimur (Bhabhua)">>, <<"Munger", "Munger">>, <<"Samastipur", "Samastipur">>,
    <<"Purnia", "Purnia">>, <<"Purba Champaran", "East Champaran">>,
    <<"Near university", "Unknown">>, <<"Dantewada", "Dantewada">>,
    <<"Janjgir-Champa", "Janjgir-Champa">>,
    <<"Gaurela-Pendra-Marwahi", "Gaurella-Pendra-Marwahi">>,
    <<"Mohla-Manpur-Ambagarh Chowki", "Mohla-Manpur-Ambagarh Chowki">>,
    <<"Ahmadabad", "Ahmedabad">>, <<"Banas Kantha", "Banaskantha">>,
    <<"Panch Mahals", "Panchmahal">>, <<"Sabar Kantha", "Sabarkantha">>,
    <<"Surendra Nagar", "Surendranagar">>, <<"Yamuna Nagar", "Yamunanagar">>,
    <<"Lahaul and Spiti", "Lahaul and Spiti">>, <<"Lahul & Spiti", "Lahaul and Spiti">>,
    <<"Bandipore", "Bandipora">>, <<"Bandipur", "Bandipora">>, <<"Poonch", "Poonch">>,
    <<"Punch", "Poonch">>, <<"Rajauri", "Rajouri">>, <<"Shopian", "Shopian">>,
    <<"Shupiyan", "Shopian">>, <<"Udhampur", "Udhampur">>,
    <<"East Singhbum", "East Singhbhum">>, <<"Hazaribag", "Hazaribagh">>,
    <<"Koderma", "Kodarma">>, <<"Pakaur", "Pakur">>, <<"Palamau", "Palamu">>,
    <<"Sahebganj", "Sahibganj">>, <<"Seraikela-kharsawan", "Seraikela Kharsawan">>,
    <<"Pashchimi Singhbhum", "West Singhbhum">>, <<"5th cross", "Bengaluru Urban">>,
    <<"Bangalore", "Bengaluru Urban">>, <<"Bengaluru", "Bengaluru Urban">>,
    <<"Bijapur", "Vijayapura">>, <<"Chickmagalur", "Chikkamagaluru">>,
    <<"Chikmagalur", "Chikkamagaluru">>, <<"Davanagere", "Davangere">>, <<"Hasan", "Hassan">>,
    <<"Mysore", "Mysuru">>, <<"Ramanagar", "Ramanagara">>, <<"Shimoga", "Shivamogga">>,
    <<"Tumkur", "Tumakuru">>, <<"Yadgir", "Yadgir">>, <<"ANGUL", "Angul">>,
    <<"Boudh", "Boudh">>, <<"Jajpur", "Jajpur">>, <<"Jagatsinghpur", "Jagatsinghpur">>,
    <<"Khordha", "Khordha">>, <<"Nabarangpur", "Nabarangpur">>, <<"Subarnapur", "Subarnapur">>,
    <<"Muktsar", "Sri Muktsar Sahib">>, <<"Nawanshahr", "Shaheed Bhagat Singh Nagar">>,
    <<"S.A.S Nagar", "SAS Nagar (Mohali)">>, <<"Ferozepur", "Ferozepur">>,
    <<"Chittorgarh", "Chittorgarh">>, <<"Dholpur", "Dholpur">>, <<"Jalore", "Jalore">>,
    <<"Jhunjhunu", "Jhunjhunu">>, <<"Near meera hospital", "Unknown">>,
    <<"East Sikkim", "Gangtok">>, <<"North Sikkim", "Mangan (North)">>,
    <<"South Sikkim", "Namchi (South)">>, <<"West Sikkim", "Gyalshing (West)">>,
    <<"Near Dhyana Ashram", "Unknown">>, <<"Thiruvallur", "Tiruvallur">>,
    <<"Thiruvarur", "Tiruvarur">>, <<"Tuticorin", "Thoothukkudi">>,
    <<"Tirupattur", "Tirupattur">>, <<"Aurangabad", "Chhatrapati Sambhajinagar">>,
    <<"Osmanabad", "Dharashiv">>, <<"Ahmednagar", "Ahilyanagar">>, <<"Gurgaon", "Gurugram">>,
    <<"Budaun", "Badaun">>, <<"Bulandshahar", "Bulandshahr">>,
    <<"Mumbai( Sub Urban )", "Mumbai Suburban">>,
    <<"Chhatrapati Sambhaji Nagar", "Chhatrapati Sambhajinagar">>,
    <<"Mahbubnagar", "Mahabub Nagar">>, <<"Visakhapatanam", "Visakhapatnam">>,
    <<"Y. S. R", "YSR Kadapa">>, <<"chittoor", "Chittoor">>, <<"rangareddi", "Ranga Reddy">>,
    <<"K.V.Rangareddy", "Ranga Reddy">>, <<"Kadiri Road", "Sri Sathya Sai">>,
    <<"Anantapur", "Ananthapuramu">>, <<"Nellore", "Sri Potti Sriramulu Nellore">>,
    <<"Spsr Nellore", "Sri Potti Sriramulu Nellore">>, <<"Karimganj", "Sribhumi">>,
    <<"North Cachar Hills", "Dima Hasao">>, <<"Sibsagar", "Sivasagar">>,
    <<"Tamulpur District", "Tamulpur">>, <<"Aurangabad(BH)", "Aurangabad">>,
    <<"Aurangabad(bh)", "Aurangabad">>, <<"Bhabua", "Kaimur (Bhabua)">>,
    <<"Monghyr", "Munger">>, <<"Near University Thana", "Darbhanga">>, <<"Purnea", "Purnia">>,
    <<"Samstipur", "Samastipur">>, <<"Sheikpura", "Sheikhpura">>,
    <<"Pashchim Champaran", "West Champaran">>, <<"East Champaran", "Purbi Champaran">>,
    <<"West Champaran", "Paschim Champaran">>, <<"Dakshin Bastar Dantewada", "Dantewada">>,
    <<"Gaurela-pendra-marwahi", "Gaurella Pendra Marwahi">>,
    <<"Janjgir - Champa", "Janjgir-champa">>, <<"Janjgir Champa", "Janjgir-champa">>,
    <<"Manendragarh~~hirmiri~~haratpur", "Manendragarh-Chirmiri-Bharatpur">>,
    <<"Mohalla-Manpur-Ambagarh Chowki", "Mohla-Manpur-Ambagarh Chouki">>,
    <<"Vijayapura", "Bijapur">>, <<"Dadra & Nagar Haveli", "Dadra and Nagar Haveli">>,
    <<"Dadra And Nagar Haveli", "Dadra and Nagar Haveli">>,
    <<"Najafgarh", "South West Delhi">>, <<"North East", "North East Delhi">>,
    <<"Bardez", "North Goa">>, <<"Bicholim", "North Goa">>, <<"Tiswadi", "North Goa">>,
    <<"Panchmahals", "Panchmahal">>, <<"Dohad", "Dahod">>, <<"The Dangs", "Dangs">>,
    <<"Dang", "Dangs">>, <<"Akhera", "Rewari">>, <<"Mewat", "Nuh">>,
    <<"Lahul and Spiti", "Lahaul and Spiti">>, <<"?", "Jammu">>, <<"punch", "Poonch">>,
    <<"udhampur", "Udhampur">>, <<"Badgam", "Budgam">>,
    <<"Seraikela Kharsawan", "Seraikela-Kharsawan">>, <<"Purbi Singhbhum", "West Singhbhum">>,
    <<"Seraikela Kharsawan", "Seraikela-Kharsawan">>, <<"Bengaluru Rural", "Bangalore Rural">>,
    <<"Bijapur(KAR)", "Vijayapura">>, <<"Chamarajanagara", "Chamrajanagar">>,
    <<"Chamrajnagar", "Chamrajanagar">>, <<"yadgir", "Yadgir">>, <<"Bellary", "Ballari">>,
    <<"Belgaum", "Belagavi">>, <<"Gulbarga", "Kalaburagi">>,
    <<"Ramanagara", "Bengaluru South">>, <<"Kasargod", "Kasaragod">>,
    <<"Leh (ladakh)", "Leh">>, <<"Ashoknagar", "Ashok Nagar">>,
    <<"Narsimhapur", "Narsinghpur">>, <<"Hoshangabad", "Narmadapuram">>,
    <<"East Nimar", "Khandwa">>, <<"West Nimar", "Khargone">>, <<"Ahmadnagar", "Ahilyanagar">>,
    <<"Ahmed Nagar", "Ahilyanagar">>, <<"Aurangabad", "Chatrapati Sambhaji Nagar">>,
    <<"Bid", "Beed">>, <<"Buldana", "Buldhana">>, <<"Dist : Thane", "Thane">>,
    <<"Gondiya", "Gondia">>, <<"Near Uday nagar NIT garden", "Nagpur">>,
    <<"Raigarh", "Raigad">>, <<"Raigarh(MH)", "Raigad">>,
    <<"Jaintia Hills", "West Jaintia Hills">>, <<"Mammit", "Mamit">>, <<"ANUGUL", "Angul">>,
    <<"Anugal", "Angul">>, <<"Anugul", "Angul">>, <<"BALANGIR", "Balangir">>,
    <<"Baleshwar", "Baleswar">>, <<"Balianta", "Khordha">>, <<"Baudh", "Boudh">>,
    <<"Bhadrak(R)", "Bhadrak">>, <<"JAJPUR", "Jajpur">>, <<"Jajapur", "Jajpur">>,
    <<"Jagatsinghpur", "Jagatsinghapur">>, <<"Khorda", "Khordha">>, <<"NAYAGARH", "Nayagarh">>,
    <<"NUAPADA", "Nuapada">>, <<"Nabarangapur", "Nabarangpur">>, <<"Sonapur", "Subarnapur">>,
    <<"Sundergarh", "Sundargarh">>, <<"jajpur", "Jajpur">>, <<"Pondicherry", "Puducherry">>,
    <<"Yanam", "Puducherry">>, <<"Ferozepur", "Firozpur">>, <<"Mohali", "SAS Nagar (Mohali)">>,
    <<"S.A.S Nagar(Mohali)", "SAS Nagar (Mohali)">>, <<"SAS Nagar", "SAS Nagar (Mohali)">>,
    <<"Chittaurgarh", "Chittorgarh">>, <<"Dhaulpur", "Dholpur">>, <<"Jalor", "Jalore">>,
    <<"Jhunjhunun", "Jhunjhunu">>, <<"South", "Namchi (South)">>,
    <<"West", "Gyalshing (West)">>, <<"North", "Mangan (North)">>,
    <<"West", "Gyalshing (West)">>, <<"Mangan", "Mangan (North)">>,
    <<"Namchi", "Namchi (South)">>, <<"Kanchipuram", "Kancheepuram">>,
    <<"Kanniyakumari", "Kanyakumari">>, <<"Tirupattur", "Tirupathur">>,
    <<"Villupuram", "Viluppuram">>, <<"Jangoan", "Jangaon">>,
    <<"Medchal Malkajgiri", "Medchal-Malkajgiri">>,
    <<"Medchal-malkajgiri", "Medchal-Malkajgiri">>,
    <<"Medchal~~~malkajgiri", "Medchal-Malkajgiri">>,
    <<"Medchal~~alkajgiri", "Medchal-Malkajgiri">>, <<"Rangareddi", "Ranga Reddy">>,
    <<"Warangal (urban)", "Hanumakonda">>, <<"Warangal Urban", "Hanumakonda">>,
    <<"Warangal Rural", "Warangal">>, <<"Yadadri.", "Yadadri Bhuvanagiri">>,
    <<"Medchalmalkajgiri", "Medchal-Malkajgiri">>, <<"Mahabub Nagar", "Mahabubnagar">>,
    <<"Karim Nagar", "Karimnagar">>, <<"Baghpat", "Bagpat">>, <<"Bara Banki", "Barabanki">>,
    <<"Jyotiba Phule Nagar", "Amroha">>, <<"Kheri", "Lakhimpur Kheri">>,
    <<"Kushi Nagar", "Kushinagar">>, <<"Mahrajganj", "Maharajganj">>,
    <<"Raebareli", "Rae Bareli">>, <<"Shrawasti", "Shravasti">>,
    <<"Siddharth Nagar", "Siddharthnagar">>, <<"Hardwar", "Haridwar">>,
    <<"24 Paraganas North", "North 24 Parganas">>,
    <<"24 Paraganas South", "South 24 Parganas">>, <<"Bally Jagachha", "Howrah">>,
    <<"Darjiling", "Darjeeling">>, <<"Dinajpur Dakshin", "Dakshin Dinajpur">>,
    <<"Dinajpur Uttar", "Uttar Dinajpur">>, <<"East Midnapur", "Purba Medinipur">>,
    <<"East midnapore", "Purba Medinipur">>, <<"HOOGHLY", "Hooghly">>,
    <<"Hooghiy", "Hooghly">>, <<"HOWRAH", "Howrah">>, <<"Haora", "Howrah">>,
    <<"Hawrah", "Howrah">>, <<"Hugli", "Hooghly">>, <<"KOLKATA", "Kolkata">>,
    <<"Koch Bihar", "Cooch Behar">>, <<"MALDA", "Malda">>, <<"Maldah", "Malda">>,
    <<"NADIA", "Nadia">>, <<"North Twenty Four Parganas", "North 24 Parganas">>,
    <<"Puruliya", "Purulia">>, <<"South  Twenty Four Parganas", "South 24 Parganas">>,
    <<"South 24 Pargana", "South 24 Parganas">>, <<"South 24 pargana", "South 24 Parganas">>,
    <<"South 24 parganas", "South 24 Parganas">>,
    <<"South Twenty Four Parganas", "South 24 Parganas">>,
    <<"South DumDum(M)", "North 24 Parganas">>, <<"West Midnapore", "Paschim Medinipur">>,
    <<"east midnapore", "Purba Medinipur">>, <<"hooghly", "Hooghly">>, <<"nadia", "Nadia">>
    >>

state_map == Dict(state_map_items)
district_map == Dict(district_map_items)

\* Lines 96-118: the reassignments, in the order of the source.
reassignments_with_override ==
    << [old |-> "Meghalaya", districts |-> {"Kamrup"}, new |-> "Assam"],
       [old |-> "Andhra Pradesh", districts |-> ts_districts, new |-> "Telangana"],
       [old |-> "Chandigarh", districts |-> {"Mohali", "Rupnagar"}, new |-> "Punjab"],
       [old |-> "Puducherry", districts |-> {"Cuddalore", "Viluppuram"}, new |-> "Tamil Nadu"],
       [old |-> "Andhra Pradesh", districts |-> {"Karim Nagar"}, new |-> "Telangana"],
       [old |-> "Andhra Pradesh", districts |-> {"Ranga Reddy"}, new |-> "Telangana"],
       [old |-> "Andhra Pradesh", districts |-> {"Mahabub Nagar"}, new |-> "Telangana"],
       [old |-> "Jammu and Kashmir", districts |-> {"Leh"}, new |-> "Ladakh"],
       [old |-> "Jammu and Kashmir", districts |-> {"Kargil"}, new |-> "Ladakh"],
       [old |-> "Telangana", districts |-> {"Hyderabad"}, new |-> "Andhra Pradesh"] >>
reassignments ==
    << [old |-> "Meghalaya", districts |-> {"Kamrup"}, new |-> "Assam"],
       [old |-> "Andhra Pradesh", districts |-> ts_districts, new |-> "Telangana"],
       [old |-> "Chandigarh", districts |-> {"Mohali", "Rupnagar"}, new |-> "Punjab"],
       [old |-> "Puducherry", districts |-> {"Cuddalore", "Viluppuram"}, new |-> "Tamil Nadu"],
       [old |-> "Andhra Pradesh", districts |-> {"Karim Nagar"}, new |-> "Telangana"],
       [old |-> "Andhra Pradesh", districts |-> {"Ranga Reddy"}, new |-> "Telangana"],
       [old |-> "Andhra Pradesh", districts |-> {"Mahabub Nagar"}, new |-> "Telangana"],
       [old |-> "Jammu and Kashmir", districts |-> {"Leh"}, new |-> "Ladakh"],
       [old |-> "Jammu and Kashmir", districts |-> {"Kargil"}, new |-> "Ladakh"],
       [old |-> "Jammu and Kashmir", districts |-> {"Leh (ladakh)"}, new |-> "Ladakh"] >>

\* The state after rules i.. of `rules` are applied in turn to (state, district).
RECURSIVE ApplyRulesByDistrict(_, _, _, _)
ApplyRulesByDistrict(rules, i, state, district) ==
    IF i > Len(rules) THEN state
    ELSE ApplyRulesByDistrict(rules, i + 1,
            IF district \in rules[i].districts THEN rules[i].new ELSE state, district)
RECURSIVE ApplyRules(_, _, _, _)
ApplyRules(rules, i, state, district) ==
    IF i > Len(rules) THEN state
    ELSE ApplyRules(rules, i + 1,
            IF state = rules[i].old /\ district \in rules[i].districts THEN rules[i].new ELSE state,
            district)

\* The stages of clean_data on one row.
state_correction(r) == [r EXCEPT !.state = Replace(state_map, r.state)]
state_reassignment_without_transfer_set(r) ==
    [r EXCEPT !.state = ApplyRules(SubSeq(reassignments, 3, Len(reassignments)), 1, r.state, r.district)]
state_reassignment_on_corrected_district(r) ==
    [r EXCEPT !.state = ApplyRules(reassignments, 1, r.state, Replace(district_map, r.district))]
state_reassignment(r) == [r EXCEPT !.state = ApplyRules(reassignments, 1, r.state, r.district)]
district_correction(r) == [r EXCEPT !.district = Replace(district_map, r.district)]
lexical_stage(r) == [r EXCEPT !.district = lexical_cleanup(r.district)]
\* Line 322: the rows whose district is not 'Unknown'.
district_known(r) == r.district # "Unknown"
\* Lines 327-335: the rows whose state is not 'Unknown' or '100000' and whose
\* district is not '100000'.
not_sentinel(r) == r.state \notin {"Unknown", "100000"} /\ r.district # "100000"

Map(f(_), q) == [i \in DOMAIN q |-> f(q[i])]

\* clean_data as a whole, on a DataFrame q.
clean_data(q) ==
    IF q = <<>> THEN q
    ELSE LET a == Map(lexical_stage, q)
             b == Map(state_correction, a)
             c == Map(state_reassignment, b)
             d == SelectSeq(Map(district_correction, c), district_known)
         IN SelectSeq(d, not_sentinel)

(***************************************************************************)
(* clean_data called on a one-row DataFrame, stage by stage, and called    *)
(* again on what it returned (as process_final_data does with the          *)
(* exported aggregate).                                                    *)
(***************************************************************************)
\* The spellings a raw file can hold.
RuleDistricts == UNION {reassignments[i].districts : i \in DOMAIN reassignments}
RuleStates == {reassignments[i].old : i \in DOMAIN reassignments} \cup {reassignments[i].new : i \in DOMAIN reassignments}
\* Districts the tables never mention, and decorated or junk strings.
OtherDistricts == {"Agra", "Pune"}
ExtraDistricts ==
    OtherDistricts \cup
    {" Agra ", "Hyder*abad", "Hyderabad *", "~Pune", "Near Railway Station",
     "100000", "Unknown", "ManendragarhChirmiriBharatpur", "aurangabad", "K.V RANGAEEDDY ",
     " * "}
\* States the tables never mention, and strings that are no state at all.
OtherStates == {"Bihar", "Karnataka", "Maharashtra", "Chhattisgarh", "Uttar Pradesh", "Sikkim"}
ExtraStates == OtherStates \cup {"Unknown", "west bengal", "Atlantis"}
RawDistricts == Keys(district_map_items) \cup Values(district_map_items) \cup RuleDistricts \cup ExtraDistricts
RawStates == Keys(state_map_items) \cup Values(state_map_items) \cup RuleStates \cup ExtraStates
RawRecords == {[state |-> st, district |-> d] : st \in RawStates, d \in RawDistricts}

InitClean ==
    /\ UploadIdle
    /\ districtFile = [exists |-> FALSE, lines |-> DistrictLines]
    /\ ScriptIdle
    /\ AggIdle
    /\ FinalIdle
    /\ sessions = NoSessions
    /\ cleanIn \in RawRecords
    /\ cdf = <<cleanIn>>
    /\ cleanPc = "start"
    /\ cleanPasses = 0
    /\ cleanFirst = <<>>

CleanStep(from, to, result) ==
    /\ cleanPc = from
    /\ cdf # <<>>
    /\ cdf' = result
    /\ cleanPc' = to
    /\ UNCHANGED <<cleanIn, cleanPasses, cleanFirst, uploadVars, scriptVars, aggVars, finalVars, sessions>>

\* Line 59: an empty DataFrame is returned as it is.
CleanEmpty ==
    /\ cleanPc \in {"start", "lexical", "state_corrected", "reassigned", "district_corrected"}
    /\ cdf = <<>>
    /\ cleanPc' = "returned"
    /\ cleanPasses' = cleanPasses + 1
    /\ cleanFirst' = IF cleanPasses = 0 THEN cdf ELSE cleanFirst
    /\ UNCHANGED <<cleanIn, cdf, uploadVars, scriptVars, aggVars, finalVars, sessions>>

LexicalCleanup == CleanStep("start", "lexical", Map(lexical_stage, cdf))
StateCorrection == CleanStep("lexical", "state_corrected", Map(state_correction, cdf))
StateReassignment == CleanStep("state_corrected", "reassigned", Map(state_reassignment, cdf))
DistrictCorrection ==
    CleanStep("reassigned", "district_corrected", SelectSeq(Map(district_correction, cdf), district_known))

SentinelRemoval ==
    /\ cleanPc = "district_corrected"
    /\ cdf # <<>>
    /\ cdf' = SelectSeq(cdf, not_sentinel)
    /\ cleanPc' = "returned"
    /\ cleanPasses' = cleanPasses + 1
    /\ cleanFirst' = IF cleanPasses = 0 THEN cdf' ELSE cleanFirst
    /\ UNCHANGED <<cleanIn, uploadVars, scriptVars, aggVars, finalVars, sessions>>

\* clean_data is called again on the DataFrame it returned.
CleanAgain ==
    /\ cleanPc = "returned"
    /\ cleanPasses < MaxPasses
    /\ cleanPc' = "start"
    /\ UNCHANGED <<cleanIn, cdf, cleanPasses, cleanFirst, uploadVars, scriptVars, aggVars, finalVars, sessions>>

NextClean ==
    \/ LexicalCleanup
    \/ StateCorrection
    \/ StateReassignment
    \/ DistrictCorrection
    \/ SentinelRemoval
    \/ CleanEmpty
    \/ CleanAgain

SpecClean == InitClean /\ [][NextClean]_vars

(***************************************************************************)
(* The analysis run of "Cleaned Data/Data Cleaning.py": load_datasets,     *)
(* clean_data on the three DataFrames, export_monthly_data,                *)
(* calculate_metrics and export_full_district_data.                        *)
(*                                                                         *)
(* A row of a raw file is [cat, state, district, date, v]: cat is the      *)
(* category of the file it is in, v the counters of that category in the   *)
(* order of the file's columns.  A ratio is an exact fraction in lowest    *)
(* terms.  Each category has a file with the columns state, district and   *)
(* date.                                                                   *)
(***************************************************************************)
MaxRecords == 3

enrol_cols == <<"age_0_5", "age_5_17", "age_18_greater">>
demo_cols == <<"demo_age_5_17", "demo_age_17_">>
bio_cols == <<"bio_age_5_17", "bio_age_17_">>

RawRow(c, st, d, dt, v) == [cat |-> c, state |-> st, district |-> d, date |-> dt, v |-> v]
RawRows ==
    { RawRow("enrol", "Bihar", "Patna", "15-01-2025", <<300, 150, 100>>),
      RawRow("enrol", "Bihar", "Patna *", "20-02-2025", <<2, 4, 1>>),
      RawRow("enrol", "Bihar", "Purba Champaran", "01-02-2025", <<1, 3, 5>>),
      RawRow("enrol", "100000", "Patna", "15-01-2025", <<7, 1, 1>>),
      RawRow("enrol", "Bihar", "Near university", "15-01-2025", <<1, 1, 9>>),
      RawRow("demo", "Bihar", "Patna", "15-01-2025", <<40, 60>>),
      RawRow("demo", "Bihar", "Purba Champaran", "2025/02/01", <<5, 8>>),
      RawRow("bio", "Bihar", "Patna *", "15-02-2025", <<250, 150>>),
      RawRow("bio", "Bihar", "Gaya", "15-01-2025", <<311, 213>>),
      RawRow("bio", "Bihar", "Patna", "", <<1, 2>>) }

\* Lines 27-38: the rows of the files of one category, concatenated.
Category(rows, c) == SelectSeq(rows, LAMBDA r : r.cat = c)

\* Lines 39-41 and 352-353: the date parsed as %d-%m-%Y, NaT when it does not
\* parse, and its month as a string.
ValidDate(s) == Len(s) = 10 /\ SubSeq(s, 3, 3) = "-" /\ SubSeq(s, 6, 6) = "-"
YearMonth(s) == IF ValidDate(s) THEN SubSeq(s, 7, 10) \o "-" \o SubSeq(s, 4, 5) ELSE "NaT"
with_year_month(q) ==
    [i \in DOMAIN q |->
        [cat |-> q[i].cat, state |-> q[i].state, district |-> q[i].district, date |-> q[i].date,
         v |-> q[i].v, YearMonth |-> YearMonth(q[i].date)]]

RECURSIVE ColSum(_, _)
ColSum(q, i) == IF q = <<>> THEN 0 ELSE q[1].v[i] + ColSum(Tail(q), i)

\* df.groupby(by)[cols].sum(): one row per value of the key, the sum of each
\* of the n columns over the rows of that key.
KeyOf(r, by) == [j \in DOMAIN by |-> r[by[j]]]
groupby_last(d, by, n) ==
    [k \in {KeyOf(d[i], by) : i \in DOMAIN d} |->
        LET g == SelectSeq(d, LAMBDA r : KeyOf(r, by) = k) IN g[Len(g)].v]
groupby_sum(d, by, n) ==
    [k \in {KeyOf(d[i], by) : i \in DOMAIN d} |->
        [c \in 1..n |-> ColSum(SelectSeq(d, LAMBDA r : KeyOf(r, by) = k), c)]]

\* how='outer' with fillna(0): every key of any of the three tables, and 0
\* where a table has no row for the key.
inner_join_keys(e, d, b) == DOMAIN e \cap DOMAIN d \cap DOMAIN b
outer_join_keys(e, d, b) == DOMAIN e \cup DOMAIN d \cup DOMAIN b
fillna0(g, k, n) == IF k \in DOMAIN g THEN g[k] ELSE [c \in 1..n |-> 0]

RECURSIVE GCD(_, _)
GCD(a, b) == IF b = 0 THEN a ELSE GCD(b, a % b)
\* The float n / d for n >= 0 and d >= 0, as a fraction in lowest terms; with
\* d = 0 it is inf (1 over 0) for n > 0 and NaN (0 over 0) for n = 0.
NaN == [num |-> 0, den |-> 0]
Frac(n, d) ==
    IF d = 0 THEN (IF n = 0 THEN NaN ELSE [num |-> 1, den |-> 0])
    ELSE [num |-> n \div GCD(n, d), den |-> d \div GCD(n, d)]

\* The sum, the difference and the product of two floats, and a float divided
\* by a count n > 0.
FracAdd(a, b) ==
    IF a = NaN \/ b = NaN THEN NaN
    ELSE IF a.den = 0 \/ b.den = 0 THEN [num |-> 1, den |-> 0]
    ELSE LET l == (a.den \div GCD(a.den, b.den)) * b.den
         IN Frac(a.num * (l \div a.den) + b.num * (l \div b.den), l)
FracSub(a, b) == FracAdd(a, [num |-> 0 - b.num, den |-> b.den])
FracMul(a, b) == IF a.den = 0 \/ b.den = 0 THEN NaN ELSE Frac(a.num * b.num, a.den * b.den)
FracDiv(a, n) == IF a.den = 0 THEN a ELSE Frac(a.num, a.den * n)

\* Lines 584-593 (and the same statements at 386-394): the counters of every
\* district and their totals.
district_totals(enrol, demo, bio) ==
    LET e_grp == groupby_sum(enrol, <<"state", "district">>, 3)
        d_grp == groupby_sum(demo, <<"state", "district">>, 2)
        b_grp == groupby_sum(bio, <<"state", "district">>, 2)
        row(k) ==
            LET e == fillna0(e_grp, k, 3)
                d == fillna0(d_grp, k, 2)
                b == fillna0(b_grp, k, 2)
                Enrol_Total == e[1] + e[2] + e[3]
                Update_Total == d[1] + d[2] + b[1] + b[2]
            IN [age_0_5 |-> e[1], age_5_17 |-> e[2], age_18_greater |-> e[3],
                demo_age_5_17 |-> d[1], demo_age_17_ |-> d[2],
                bio_age_5_17 |-> b[1], bio_age_17_ |-> b[2],
                Enrol_Total |-> Enrol_Total, Update_Total |-> Update_Total,
                Grand_Total |-> Enrol_Total + Update_Total]
    IN [k \in outer_join_keys(e_grp, d_grp, b_grp) |-> row(k)]

\* Lines 597-603: the three ratios of a row of totals.
full_ratios(t) ==
    [UER_Score |-> Frac(t.Update_Total, t.Enrol_Total + 1),
     Adult_Entry_Rate |-> Frac(t.age_18_greater, t.Enrol_Total + 1),
     Catch_Up_Index |-> Frac(t.age_5_17, t.age_0_5 + 1)]

export_full_district_data(enrol, demo, bio) ==
    LET totals == district_totals(enrol, demo, bio)
    IN [k \in DOMAIN totals |-> [counters |-> totals[k], ratios |-> full_ratios(totals[k])]]

\* Line 398.
LowVolume == 500

\* Lines 402-418: the ratios R1 to R6 of a row of totals.
metric_ratios_without_offset(t) ==
    [R1_UER |-> Frac(t.Update_Total, t.Enrol_Total + 1),
     R2_Bio_Demo_Ratio |-> Frac(t.bio_age_5_17 + t.bio_age_17_, t.demo_age_5_17 + t.demo_age_17_ + 1),
     R3_Catch_Up_Index |-> Frac(t.age_5_17, t.age_0_5 + 1),
     R4_Adult_Entry_Rate |-> Frac(t.age_18_greater, t.Enrol_Total + 1),
     R5_Child_Share |-> Frac(t.age_0_5, t.Enrol_Total + 1),
     R6_Ghost_Proxy |-> Frac(t.Enrol_Total, t.Update_Total)]
metric_ratios(t) ==
    [R1_UER |-> Frac(t.Update_Total, t.Enrol_Total + 1),
     R2_Bio_Demo_Ratio |-> Frac(t.bio_age_5_17 + t.bio_age_17_, t.demo_age_5_17 + t.demo_age_17_ + 1),
     R3_Catch_Up_Index |-> Frac(t.age_5_17, t.age_0_5 + 1),
     R4_Adult_Entry_Rate |-> Frac(t.age_18_greater, t.Enrol_Total + 1),
     R5_Child_Share |-> Frac(t.age_0_5, t.Enrol_Total + 1),
     R6_Ghost_Proxy |-> Frac(t.Enrol_Total, t.Update_Total + 1)]

\* Lines 421-422: the mean and the standard deviation (ddof = 1) of the
\* column r over the rows keys; of the deviation its square is kept, NaN for
\* fewer than two rows.
RECURSIVE ColumnSum(_, _)
ColumnSum(r, keys) ==
    IF keys = {} THEN Frac(0, 1)
    ELSE LET k == CHOOSE x \in keys : TRUE IN FracAdd(r[k], ColumnSum(r, keys \ {k}))
mean(r, keys) == IF keys = {} THEN NaN ELSE FracDiv(ColumnSum(r, keys), Cardinality(keys))
std_squared(r, keys) ==
    IF Cardinality(keys) < 2 THEN NaN
    ELSE LET m == mean(r, keys)
             sq == [k \in keys |-> FracMul(FracSub(r[k], m), FracSub(r[k], m))]
         IN FracDiv(ColumnSum(sq, keys), Cardinality(keys) - 1)

\* Line 424: (R4 - mean_adult) / (std_adult + 1e-5), kept as its numerator and
\* the square of std_adult: the divisor is one positive number for all the rows
\* of a call, or NaN for all of them.
adult_zscore_absolute(r, mean_adult, std_adult_squared) ==
    [deviation |-> IF FracSub(r, mean_adult).num < 0 THEN FracSub(mean_adult, r)
                   ELSE FracSub(r, mean_adult),
     std_squared |-> std_adult_squared]
adult_zscore(r, mean_adult, std_adult_squared) ==
    [deviation |-> FracSub(r, mean_adult), std_squared |-> std_adult_squared]

\* Lines 400-424 on the rows kept of the table totals.
add_metrics(totals, kept) ==
    LET R4 == [k \in kept |-> metric_ratios(totals[k]).R4_Adult_Entry_Rate]
    IN [k \in kept |->
            [counters |-> totals[k], ratios |-> metric_ratios(totals[k]),
             R7_Adult_ZScore |-> adult_zscore(R4[k], mean(R4, kept), std_squared(R4, kept))]]

\* Lines 382-424: the districts above the low-volume threshold.
calculate_metrics_from_threshold(enrol, demo, bio) ==
    LET totals == district_totals(enrol, demo, bio)
    IN add_metrics(totals, {x \in DOMAIN totals : totals[x].Grand_Total >= LowVolume})
calculate_metrics(enrol, demo, bio) ==
    LET totals == district_totals(enrol, demo, bio)
    IN add_metrics(totals, {x \in DOMAIN totals : totals[x].Grand_Total > LowVolume})

\* The z-score a is a number above the z-score b of the same call.
ZScoreAbove(a, b) ==
    /\ a.std_squared # NaN
    /\ FracSub(a.deviation, b.deviation).num > 0
\* Line 530: the rows that sort_values('R7_Adult_ZScore', ascending=False)
\* can put first (NaN sorts last, equal values in any order).
top_anomalous(metrics) ==
    {k \in DOMAIN metrics :
        \A j \in DOMAIN metrics : ~ZScoreAbove(metrics[j].R7_Adult_ZScore, metrics[k].R7_Adult_ZScore)}

\* Lines 342-377: the counters of every (state, district, month).
export_monthly_data(enrol, demo, bio) ==
    LET by == <<"state", "district", "YearMonth">>
        e_monthly == groupby_sum(with_year_month(enrol), by, 3)
        d_monthly == groupby_sum(with_year_month(demo), by, 2)
        b_monthly == groupby_sum(with_year_month(bio), by, 2)
        row(k) ==
            LET e == fillna0(e_monthly, k, 3)
                d == fillna0(d_monthly, k, 2)
                b == fillna0(b_monthly, k, 2)
            IN [Enrol_age_0_5 |-> e[1], Enrol_age_5_17 |-> e[2], Enrol_age_18_greater |-> e[3],
                Demo_demo_age_5_17 |-> d[1], Demo_demo_age_17_ |-> d[2],
                Bio_bio_age_5_17 |-> b[1], Bio_bio_age_17_ |-> b[2]]
    IN [k \in outer_join_keys(e_monthly, d_monthly, b_monthly) |-> row(k)]

\* The two groups of raw files a run finds.
InitAgg ==
    /\ UploadIdle
    /\ districtFile = [exists |-> FALSE, lines |-> DistrictLines]
    /\ ScriptIdle
    /\ CleanIdle
    /\ FinalIdle
    /\ sessions = NoSessions
    /\ batchA \in SeqsUpTo(RawRows, MaxRecords)
    /\ batchB \in SeqsUpTo(RawRows, MaxRecords - Len(batchA))
    /\ enrol_df = <<>>
    /\ demo_df = <<>>
    /\ bio_df = <<>>
    /\ aggPc = "start"
    /\ master_ts = NoTable
    /\ metrics_df = NoTable
    /\ full_df = NoTable

\* Line 498: load_datasets concatenates the files of each category.
LoadDatasets ==
    /\ aggPc = "start"
    /\ enrol_df' = Category(batchA \o batchB, "enrol")
    /\ demo_df' = Category(batchA \o batchB, "demo")
    /\ bio_df' = Category(batchA \o batchB, "bio")
    /\ aggPc' = "loaded"
    /\ UNCHANGED <<batchA, batchB, master_ts, metrics_df, full_df, uploadVars, scriptVars, cleanVars, finalVars, sessions>>

\* Lines 501-503.
CleanDatasets ==
    /\ aggPc = "loaded"
    /\ enrol_df' = clean_data(enrol_df)
    /\ demo_df' = clean_data(demo_df)
    /\ bio_df' = clean_data(bio_df)
    /\ aggPc' = "cleaned"
    /\ UNCHANGED <<batchA, batchB, master_ts, metrics_df, full_df, uploadVars, scriptVars, cleanVars, finalVars, sessions>>

\* Line 508.
ExportMonthly ==
    /\ aggPc = "cleaned"
    /\ master_ts' = export_monthly_data(enrol_df, demo_df, bio_df)
    /\ aggPc' = "monthly"
    /\ UNCHANGED <<batchA, batchB, enrol_df, demo_df, bio_df, metrics_df, full_df, uploadVars, scriptVars, cleanVars, finalVars, sessions>>

\* Line 512.
CalculateMetrics ==
    /\ aggPc = "monthly"
    /\ metrics_df' = calculate_metrics(enrol_df, demo_df, bio_df)
    /\ aggPc' = "metrics"
    /\ UNCHANGED <<batchA, batchB, enrol_df, demo_df, bio_df, master_ts, full_df, uploadVars, scriptVars, cleanVars, finalVars, sessions>>

\* export_full_district_data called on the cleaned DataFrames; the file it
\* writes is the one process_final_data reads.
ExportFull ==
    /\ aggPc = "metrics"
    /\ full_df' = export_full_district_data(enrol_df, demo_df, bio_df)
    /\ aggPc' = "exported"
    /\ UNCHANGED <<batchA, batchB, enrol_df, demo_df, bio_df, master_ts, metrics_df, uploadVars, scriptVars, cleanVars, finalVars, sessions>>

NextAgg ==
    \/ LoadDatasets
    \/ CleanDatasets
    \/ ExportMonthly
    \/ CalculateMetrics
    \/ ExportFull

SpecAgg == InitAgg /\ [][NextAgg]_vars

(***************************************************************************)
(* What the claims speak of, stated on the data and not through the        *)
(* functions of the code.                                                   *)
(***************************************************************************)
\* The district names of the taxonomy list.
TaxonomyList == {"Agra", "Pune"}
CellsOf(t, c) == IF c \in t.cols THEN {t.rows[i][c] : i \in 1..Len(t.rows)} ELSE {}
AllCellsOf(t) == UNION {CellsOf(t, c) : c \in t.cols}
HasNullCell(t) == Null \in AllCellsOf(t)
HasPlaceholderCell(t) == AllCellsOf(t) \cap {Str("?"), Str(" ")} # {}
TrimmedDistricts(t) == {Strip(c.s) : c \in {x \in CellsOf(t, "district") : x.k = "str"}}
UnknownDistricts(t) == TrimmedDistricts(t) \ TaxonomyList
HasUnknownDistrict(t) == UnknownDistricts(t) # {}
HasNegativeCount(t) ==
    \E c \in CellsOf(t, "Bio_bio_age_5_17") \cup CellsOf(t, "Bio_bio_age_17_") : c.k = "num" /\ c.n < 0

PassDone == outcome # "none"
Admitted == outcome \in {"retrained", "unexpected_error"}
Rejections == {"null_values", "placeholders", "negative_values", "unknown_districts"}

\* The first category of `order` that table t violates, "" when none.
Violates(t, cat, fileThere) ==
    CASE cat = "null_values" -> HasNullCell(t)
      [] cat = "placeholders" -> HasPlaceholderCell(t)
      [] cat = "negative_values" -> HasNegativeCount(t)
      [] cat = "unknown_districts" -> fileThere /\ HasUnknownDistrict(t)
      [] OTHER -> FALSE
FirstViolated(order, t, fileThere) ==
    LET hits == {i \in 1..Len(order) : Violates(t, order[i], fileThere)}
    IN IF hits = {} THEN "" ELSE order[CHOOSE i \in hits : \A j \in hits : i <= j]
CheckName(cat) ==
    CASE cat = "null_values" -> "inspect_nulls"
      [] cat = "placeholders" -> "check_placeholders"
      [] cat = "negative_values" -> "negative_values"
      [] OTHER -> "validate_districts"
\* The checks of `order` called up to and including the one of category cat
\* (all of them when cat is ""), the district check only with its file there.
CallsUpTo(order, cat, fileThere) ==
    LET last == IF cat = "" THEN Len(order) ELSE CHOOSE i \in 1..Len(order) : order[i] = cat
        called == [i \in 1..last |-> CheckName(order[i])]
    IN SelectSeq(called, LAMBDA n : n # "validate_districts" \/ fileThere)

(***************************************************************************)
(* C1  Gate atomicity.                                                     *)
(***************************************************************************)
\* C1 as stated: after a pass on a batch holding a null cell, a placeholder
\* token or a district outside the taxonomy list, the master table is what it
\* was before the pass.
C1_GateAtomicityAsStated ==
    (PassDone /\ (HasNullCell(new_data) \/ HasPlaceholderCell(new_data) \/ HasUnknownDistrict(new_data)))
        => master = masterBefore

\* C1 amended: after a pass on a batch holding a null cell, a placeholder token
\* or, with districts.txt present, a district outside the taxonomy list, the
\* master table is what it was before the pass.
C1_GateAtomicity ==
    (PassDone /\ (HasNullCell(new_data) \/ HasPlaceholderCell(new_data)
                    \/ (districtFile.exists /\ HasUnknownDistrict(new_data))))
        => master = masterBefore

C1_Witness ==
    /\ outcome = "unknown_districts"
    /\ ~HasNullCell(new_data) /\ ~HasPlaceholderCell(new_data)
    /\ master.exists /\ Len(master.rows) >= 1
    /\ master = masterBefore

(***************************************************************************)
(* C7  Gate check order.                                                   *)
(***************************************************************************)
ClaimedOrder == <<"null_values", "placeholders", "unknown_districts", "negative_values">>
HandlerOrder == <<"null_values", "placeholders", "negative_values", "unknown_districts">>

\* C7 as stated (taken with districts.txt present): a pass that reaches the gate
\* ends with the rejection of the first check, in the order null, placeholder,
\* district, numeric, that the batch fails.
C7_CheckOrderAsStated ==
    (PassDone /\ outcome # "column_mismatch" /\ districtFile.exists)
        => LET first == FirstViolated(ClaimedOrder, new_data, TRUE)
           IN first # "" => outcome = first

\* C7 amended: the upload handler runs the checks in the order null,
\* placeholder, numeric sanity, district (the last only with districts.txt
\* present); a pass that reaches the gate ends with the rejection of the first
\* check in this order that the batch fails, has called the checks up to that
\* one and no later one, and admits the batch when no check fails.
C7_CheckOrder ==
    (PassDone /\ outcome # "column_mismatch")
        => LET first == FirstViolated(HandlerOrder, new_data, districtFile.exists)
           IN /\ first # "" => outcome = first
              /\ first = "" => Admitted
              /\ checksRun = CallsUpTo(HandlerOrder, first, districtFile.exists)

C7_Witness ==
    /\ outcome = "negative_values"
    /\ districtFile.exists
    /\ HasUnknownDistrict(new_data)
    /\ checksRun = <<"inspect_nulls", "check_placeholders", "negative_values">>

(***************************************************************************)
(* C8  Referential check.                                                  *)
(***************************************************************************)
\* C8 as stated: an admitted batch has every trimmed district in the taxonomy
\* list, and a pass on a batch with an unknown district that reaches the gate
\* ends rejected with the unknown districts printed.
C8_ReferentialAsStated ==
    /\ Admitted => TrimmedDistricts(new_data) \subseteq TaxonomyList
    /\ (PassDone /\ outcome # "column_mismatch" /\ HasUnknownDistrict(new_data))
          => (outcome \in Rejections /\ report.unknown = UnknownDistricts(new_data))

\* C8 amended: with districts.txt present, an admitted batch has every trimmed
\* district in the taxonomy list and a batch with an unknown district is never
\* admitted; when no earlier check (null, placeholder, numeric) fails, the pass
\* ends with the district rejection, which prints exactly the unknown districts.
C8_Referential ==
    districtFile.exists =>
        /\ Admitted => TrimmedDistricts(new_data) \subseteq TaxonomyList
        /\ (PassDone /\ HasUnknownDistrict(new_data)) => ~Admitted
        /\ (PassDone /\ outcome # "column_mismatch" /\ HasUnknownDistrict(new_data)
              /\ ~HasNullCell(new_data) /\ ~HasPlaceholderCell(new_data)
              /\ ~HasNegativeCount(new_data))
              => outcome = "unknown_districts"
        /\ outcome = "unknown_districts"
              => (report.unknown = UnknownDistricts(new_data) /\ report.unknown # {})
        /\ (PassDone /\ outcome # "unknown_districts") => report.unknown = {}

C8_Witness ==
    /\ outcome = "unknown_districts"
    /\ report.unknown = {"Foo"}
    /\ Str(" Agra ") \in CellsOf(new_data, "district")

(***************************************************************************)
(* C10  Schema drift.                                                      *)
(***************************************************************************)
\* C10: a pass on a batch whose column set differs from the existing master's
\* stops before any validation check and before the merge, leaves the master
\* as it was and prints the missing and the extra columns.
C10_SchemaDrift ==
    (PassDone /\ masterBefore.exists /\ masterBefore.cols # new_data.cols)
        => /\ outcome = "column_mismatch"
           /\ checksRun = <<>>
           /\ master = masterBefore
           /\ report.missing = masterBefore.cols \ new_data.cols
           /\ report.extra = new_data.cols \ masterBefore.cols

C10_Witness ==
    /\ outcome = "column_mismatch"
    /\ report.missing = {"district"}
    /\ report.extra = {"remarks"}
    /\ master = masterBefore

(***************************************************************************)
(* C9  Numeric sanity.                                                     *)
(***************************************************************************)
\* C9: a run of the gate on a dataset with a negative value in Bio_bio_age_5_17
\* or Bio_bio_age_17_ ends in a rejection, here for the validation script.
C9_NumericSanityRejects ==
    (scriptPc \in {"done", "aborted"} /\ HasNegativeCount(df)) => scriptOutcome = "rejected"

\* The same for the upload handler: a pass that reaches the gate on such a batch
\* is never admitted.
C9_HandlerRejectsNegative ==
    (PassDone /\ HasNegativeCount(new_data)) => ~Admitted

(***************************************************************************)
(* C5  Rule-order example.                                                 *)
(***************************************************************************)
AndhraRangaReddy == [state |-> "Andhra Pradesh", district |-> "K.V RANGAEEDDY"]

\* C5: in the first pass of clean_data on the raw record (Andhra Pradesh,
\* K.V RANGAEEDDY) the record is still (Andhra Pradesh, K.V RANGAEEDDY) after
\* the state-name correction, is (Telangana, K.V RANGAEEDDY) after the state
\* reassignment, so the reassignment fires first and on the raw spelling, and
\* comes out of clean_data as (Telangana, Ranga Reddy).
C5_RuleOrderExample ==
    (cleanIn = AndhraRangaReddy /\ (cleanPasses = 0 \/ (cleanPasses = 1 /\ cleanPc = "returned")))
        => /\ cleanPc = "state_corrected" => cdf = <<AndhraRangaReddy>>
           /\ cleanPc = "reassigned" => cdf = <<[state |-> "Telangana", district |-> "K.V RANGAEEDDY"]>>
           /\ cleanPc \in {"district_corrected", "returned"}
                => cdf = <<[state |-> "Telangana", district |-> "Ranga Reddy"]>>

C5_Witness ==
    /\ cleanIn = AndhraRangaReddy
    /\ cleanPc = "returned"
    /\ cleanPasses = 1
    /\ cdf = <<[state |-> "Telangana", district |-> "Ranga Reddy"]>>

(***************************************************************************)
(* C2  Idempotence of normalization.                                       *)
(***************************************************************************)
\* C2: when clean_data has returned from a second pass, made on what the first
\* pass returned, the DataFrame is the one the first pass returned: the record
\* is kept and its (state, district) pair is the same.
C2_Idempotence ==
    (cleanPc = "returned" /\ cleanPasses >= 2) => cdf = cleanFirst

(***************************************************************************)
(* C6  Canonical-key invariant.                                            *)
(***************************************************************************)
Sentinels == {"Unknown", "100000"}

\* The taxonomy the correction tables imply: a district is canonical when it is
\* a district the tables name as the target of a correction or in a transfer
\* set, or one they never mention, and they do not rewrite it to another name; a state is canonical when it is a state of
\* India the tables do not rewrite.
TaxonomyDistricts ==
    ((Values(district_map_items) \cup RuleDistricts \cup OtherDistricts)
        \ {k \in Keys(district_map_items) : district_map[k] # k}) \ Sentinels
TaxonomyStates ==
    ((Values(state_map_items) \cup RuleStates \cup OtherStates)
        \ {k \in Keys(state_map_items) : state_map[k] # k}) \ Sentinels

InTaxonomy(r) == r.state \in TaxonomyStates /\ r.district \in TaxonomyDistricts

\* C6: every record clean_data returns has a state and a district that are in
\* the canonical taxonomy.
C6_CanonicalKey ==
    cleanPc = "returned" => \A i \in DOMAIN cdf : InTaxonomy(cdf[i])

(***************************************************************************)
(* C3  Merge-sum invariant.                                                *)
(***************************************************************************)
\* What a run on the files of one group alone returns.
CleanedOf(batch, c) == clean_data(Category(batch, c))
FullOf(batch) ==
    export_full_district_data(CleanedOf(batch, "enrol"), CleanedOf(batch, "demo"), CleanedOf(batch, "bio"))
MetricsOf(batch) ==
    calculate_metrics(CleanedOf(batch, "enrol"), CleanedOf(batch, "demo"), CleanedOf(batch, "bio"))

FieldSum(a, b) == [f \in DOMAIN a |-> a[f] + b[f]]
\* The stored ratio f is n / d.
IsRatio(f, n, d) == f.num * d = n * f.den
\* The stored ratio f is the sum of the ratios a and b.
IsSumOfRatios(f, a, b) == f.num * a.den * b.den = (a.num * b.den + b.num * a.den) * f.den

\* C3: for the groups of files A and B and every (state, district) key that
\* the aggregate of A and the aggregate of B both hold, the aggregate of the
\* run on A and B together holds the key, each of its counters and totals is
\* the sum of that counter in the two aggregates, and each of its ratios is the
\* ratio of the summed counters; this for export_full_district_data and for
\* calculate_metrics.
C3_MergeSum ==
    /\ aggPc = "exported" =>
        LET a == FullOf(batchA)
            b == FullOf(batchB)
        IN \A k \in DOMAIN a \cap DOMAIN b :
            /\ k \in DOMAIN full_df
            /\ full_df[k].counters = FieldSum(a[k].counters, b[k].counters)
            /\ LET t == FieldSum(a[k].counters, b[k].counters)
                   r == full_df[k].ratios
               IN /\ IsRatio(r.UER_Score, t.Update_Total, t.Enrol_Total + 1)
                  /\ IsRatio(r.Adult_Entry_Rate, t.age_18_greater, t.Enrol_Total + 1)
                  /\ IsRatio(r.Catch_Up_Index, t.age_5_17, t.age_0_5 + 1)
    /\ aggPc = "exported" =>
        LET a == MetricsOf(batchA)
            b == MetricsOf(batchB)
        IN \A k \in DOMAIN a \cap DOMAIN b :
            /\ k \in DOMAIN metrics_df
            /\ metrics_df[k].counters = FieldSum(a[k].counters, b[k].counters)
            /\ LET t == FieldSum(a[k].counters, b[k].counters)
                   r == metrics_df[k].ratios
               IN /\ IsRatio(r.R1_UER, t.Update_Total, t.Enrol_Total + 1)
                  /\ IsRatio(r.R2_Bio_Demo_Ratio, t.bio_age_5_17 + t.bio_age_17_,
                             t.demo_age_5_17 + t.demo_age_17_ + 1)
                  /\ IsRatio(r.R3_Catch_Up_Index, t.age_5_17, t.age_0_5 + 1)
                  /\ IsRatio(r.R4_Adult_Entry_Rate, t.age_18_greater, t.Enrol_Total + 1)
                  /\ IsRatio(r.R5_Child_Share, t.age_0_5, t.Enrol_Total + 1)
                  /\ IsRatio(r.R6_Ghost_Proxy, t.Enrol_Total, t.Update_Total + 1)

\* A key that both aggregates hold, in both outputs, whose stored ratio is not
\* the sum of the two ratios.
C3_Witness ==
    /\ aggPc = "exported"
    /\ \E k \in DOMAIN FullOf(batchA) \cap DOMAIN FullOf(batchB) :
        /\ full_df[k].counters.age_5_17 > 0
        /\ ~IsSumOfRatios(full_df[k].ratios.Catch_Up_Index,
                          FullOf(batchA)[k].ratios.Catch_Up_Index,
                          FullOf(batchB)[k].ratios.Catch_Up_Index)
    /\ \E k \in DOMAIN MetricsOf(batchA) \cap DOMAIN MetricsOf(batchB) :
        ~IsSumOfRatios(metrics_df[k].ratios.R3_Catch_Up_Index,
                       MetricsOf(batchA)[k].ratios.R3_Catch_Up_Index,
                       MetricsOf(batchB)[k].ratios.R3_Catch_Up_Index)

(***************************************************************************)
(* C4  No-loss (conservation) invariant.                                   *)
(***************************************************************************)
\* The key the correction stages give a raw row, and whether that key is a
\* sentinel: the row does not resolve.
Corrected(r) == district_correction(state_reassignment(state_correction(lexical_stage(r))))
Unresolved(r) == Corrected(r).state \in Sentinels \/ Corrected(r).district \in Sentinels
RawInput == batchA \o batchB

\* The counter columns: the category and position in the raw files, the name
\* in the district aggregate and the name in the monthly aggregate.
CounterColumns ==
    << <<"enrol", 1, "age_0_5", "Enrol_age_0_5">>,
       <<"enrol", 2, "age_5_17", "Enrol_age_5_17">>,
       <<"enrol", 3, "age_18_greater", "Enrol_age_18_greater">>,
       <<"demo", 1, "demo_age_5_17", "Demo_demo_age_5_17">>,
       <<"demo", 2, "demo_age_17_", "Demo_demo_age_17_">>,
       <<"bio", 1, "bio_age_5_17", "Bio_bio_age_5_17">>,
       <<"bio", 2, "bio_age_17_", "Bio_bio_age_17_">> >>

\* The raw rows that resolve, each with its corrected key.
Resolved ==
    SelectSeq([i \in DOMAIN RawInput |->
                  [cat |-> RawInput[i].cat, state |-> Corrected(RawInput[i]).state,
                   district |-> Corrected(RawInput[i]).district,
                   YearMonth |-> YearMonth(RawInput[i].date), v |-> RawInput[i].v]],
              LAMBDA r : r.state \notin Sentinels /\ r.district \notin Sentinels)

RECURSIVE SumOver(_, _)
SumOver(g, keys) ==
    IF keys = {} THEN 0
    ELSE LET k == CHOOSE x \in keys : TRUE IN g[k] + SumOver(g, keys \ {k})

\* C4: when the run has exported its aggregates, for every counter column the
\* sum of the column over the rows of the district aggregate, and over the
\* rows of the monthly aggregate, is the sum of the column over the raw rows
\* except those whose corrected state or district is a sentinel; and every
\* other raw row has its key in both aggregates.
C4_NoLoss ==
    aggPc = "exported" =>
        LET kept == Resolved
        IN /\ \A j \in DOMAIN CounterColumns :
                LET input == ColSum(SelectSeq(kept, LAMBDA r : r.cat = CounterColumns[j][1]),
                                    CounterColumns[j][2])
                IN /\ SumOver([k \in DOMAIN full_df |-> full_df[k].counters[CounterColumns[j][3]]],
                              DOMAIN full_df) = input
                   /\ SumOver([k \in DOMAIN master_ts |-> master_ts[k][CounterColumns[j][4]]],
                              DOMAIN master_ts) = input
           /\ \A i \in DOMAIN kept :
                /\ <<kept[i].state, kept[i].district>> \in DOMAIN full_df
                /\ <<kept[i].state, kept[i].district, kept[i].YearMonth>> \in DOMAIN master_ts

\* A run in which a raw row does not resolve, two raw rows of one category
\* with different raw spellings fall on one key, and a key is missing from a
\* category.
C4_Witness ==
    /\ aggPc = "exported"
    /\ \E i \in DOMAIN RawInput : Unresolved(RawInput[i])
    /\ \E i, j \in DOMAIN RawInput :
        /\ RawInput[i].cat = RawInput[j].cat
        /\ RawInput[i].district # RawInput[j].district
        /\ ~Unresolved(RawInput[i])
        /\ Corrected(RawInput[i]).district = Corrected(RawInput[j]).district
        /\ Corrected(RawInput[i]).state = Corrected(RawInput[j]).state
    /\ \E k \in DOMAIN full_df : full_df[k].counters.Update_Total = 0 /\ full_df[k].counters.Enrol_Total > 0

(***************************************************************************)
(* process_final_data of "Cleaned Data/Data Cleaning.py": the aggregate    *)
(* file is read, cleaned again with clean_data, its rows of one (state,    *)
(* district) are merged, the ratios are recalculated and the age-bucket    *)
(* analytics are added.                                                    *)
(*                                                                         *)
(* A row of the file is [state, district, counters, ratios, Region,        *)
(* CV_Volatility]: counters holds the seven counters and the three totals, *)
(* ratios the three ratio columns.                                         *)
(***************************************************************************)
MaxFileRows == 3

\* Lines 607-613.
region_map_items ==
    << <<"Jammu and Kashmir", "North">>, <<"Himachal Pradesh", "North">>, <<"Punjab", "North">>,
       <<"Uttarakhand", "North">>, <<"Haryana", "North">>, <<"Delhi", "North">>,
       <<"Uttar Pradesh", "North">>,
       <<"Bihar", "East">>, <<"Jharkhand", "East">>, <<"West Bengal", "East">>, <<"Odisha", "East">>,
       <<"Rajasthan", "West">>, <<"Gujarat", "West">>, <<"Maharashtra", "West">>, <<"Goa", "West">>,
       <<"Madhya Pradesh", "Central">>, <<"Chhattisgarh", "Central">>,
       <<"Andhra Pradesh", "South">>, <<"Telangana", "South">>, <<"Karnataka", "South">>,
       <<"Kerala", "South">>, <<"Tamil Nadu", "South">>,
       <<"Assam", "North East">>, <<"Meghalaya", "North East">>, <<"Mizoram", "North East">>,
       <<"Nagaland", "North East">>, <<"Tripura", "North East">>, <<"Manipur", "North East">> >>
region_map == Dict(region_map_items)
\* Line 615: .map(region_map).fillna('Other').
RegionOf(state) == IF state \in DOMAIN region_map THEN region_map[state] ELSE "Other"

\* The row export_full_district_data writes for a district with the enrolment
\* counters e, the demographic counters d, the biometric counters b and the
\* volatility cv (NaN for a district that has no enrolment record: line 621
\* assigns by index).
FileRow(st, dist, e, d, b, cv) ==
    LET t == [age_0_5 |-> e[1], age_5_17 |-> e[2], age_18_greater |-> e[3],
              demo_age_5_17 |-> d[1], demo_age_17_ |-> d[2],
              bio_age_5_17 |-> b[1], bio_age_17_ |-> b[2],
              Enrol_Total |-> e[1] + e[2] + e[3],
              Update_Total |-> d[1] + d[2] + b[1] + b[2],
              Grand_Total |-> e[1] + e[2] + e[3] + d[1] + d[2] + b[1] + b[2]]
    IN [state |-> st, district |-> dist, counters |-> t, ratios |-> full_ratios(t),
        Region |-> RegionOf(st), CV_Volatility |-> cv]

FileRows ==
    { FileRow("Bihar", "East Champaran", <<1, 2, 3>>, <<5, 20>>, <<1, 10>>, Frac(1, 2)),
      FileRow("Bihar", "Purbi Champaran", <<1, 2, 3>>, <<0, 0>>, <<2, 0>>, Frac(3, 2)),
      FileRow("Bihar", "Patna", <<3, 0, 0>>, <<0, 6>>, <<0, 0>>, Frac(0, 1)),
      FileRow("Bihar", "Gaya", <<4, 1, 1>>, <<1, 1>>, <<1, 1>>, Frac(1, 4)),
      FileRow("Bihar", "Purbi Champaran *", <<0, 0, 0>>, <<1, 1>>, <<0, 0>>, NaN),
      FileRow("Karnataka", "Bijapur", <<0, 0, 0>>, <<0, 0>>, <<0, 0>>, Frac(0, 1)),
      \* What one clean_data leaves of the records of (Puducherry, Villupuram):
      \* line 111 does not know that spelling and line 168 corrects it after.
      FileRow("Puducherry", "Viluppuram", <<2, 1, 0>>, <<1, 0>>, <<0, 1>>, Frac(1, 2)) }

RECURSIVE SumCounters(_)
SumCounters(g) ==
    IF Len(g) = 1 THEN g[1].counters
    ELSE LET rest == SumCounters(Tail(g))
         IN [f \in DOMAIN g[1].counters |-> g[1].counters[f] + rest[f]]
RECURSIVE SumRatios(_)
SumRatios(g) ==
    IF Len(g) = 1 THEN g[1].ratios
    ELSE LET rest == SumRatios(Tail(g))
         IN [f \in DOMAIN g[1].ratios |-> FracAdd(g[1].ratios[f], rest[f])]
RECURSIVE SumCV(_)
SumCV(g) == IF Len(g) = 1 THEN g[1].CV_Volatility ELSE FracAdd(g[1].CV_Volatility, SumCV(Tail(g)))

\* Lines 741-751: every numeric column is summed, Region is the first of the
\* group and CV_Volatility the mean of the group.
GroupOf(d, k) == SelectSeq(d, LAMBDA r : <<r.state, r.district>> = k)
merge_keep_first(d) ==
    [k \in {<<d[i].state, d[i].district>> : i \in DOMAIN d} |->
        LET g == GroupOf(d, k)
        IN [counters |-> g[1].counters, ratios |-> g[1].ratios, Region |-> g[1].Region,
            CV_Volatility |-> g[1].CV_Volatility]]
\* Line 748: the mean of a group leaves the missing values out.
MeanCV(g) ==
    LET vals == SelectSeq(g, LAMBDA r : r.CV_Volatility # NaN)
    IN IF vals = <<>> THEN NaN ELSE FracDiv(SumCV(vals), Len(vals))
merge_sum_volatility(d) ==
    [k \in {<<d[i].state, d[i].district>> : i \in DOMAIN d} |->
        LET g == GroupOf(d, k)
        IN [counters |-> SumCounters(g), ratios |-> SumRatios(g), Region |-> g[1].Region,
            CV_Volatility |-> SumCV(g)]]
merge_first_totals(d) ==
    [k \in {<<d[i].state, d[i].district>> : i \in DOMAIN d} |->
        LET g == GroupOf(d, k)
        IN [counters |-> [f \in DOMAIN g[1].counters |->
                             IF f \in {"Enrol_Total", "Update_Total", "Grand_Total"}
                             THEN g[1].counters[f] ELSE SumCounters(g)[f]],
            ratios |-> SumRatios(g), Region |-> g[1].Region, CV_Volatility |-> MeanCV(g)]]
merge_duplicates(d) ==
    [k \in {<<d[i].state, d[i].district>> : i \in DOMAIN d} |->
        LET g == GroupOf(d, k)
        IN [counters |-> SumCounters(g), ratios |-> SumRatios(g), Region |-> g[1].Region,
            CV_Volatility |-> MeanCV(g)]]

\* Lines 754-756: the three ratios of a merged row, from its summed totals.
ratios_carried(row) == row
recalculate_ratios(row) ==
    [row EXCEPT !.ratios =
        [UER_Score |-> Frac(row.counters.Update_Total, row.counters.Enrol_Total + 1),
         Adult_Entry_Rate |-> Frac(row.counters.age_18_greater, row.counters.Enrol_Total + 1),
         Catch_Up_Index |-> Frac(row.counters.age_5_17, row.counters.age_0_5 + 1)]]

\* The float f is above p / q (a comparison with NaN is False).
Above(f, p, q) == IF f.den = 0 THEN f.num > 0 ELSE f.num * q > p * f.den

\* Lines 656-661: np.select takes the choice of the first condition that holds.
system_phase_expansion_first(R23, R24) ==
    IF Above(R24, 1, 5) THEN "Expansion (Births)"
    ELSE IF Above(R23, 1, 2) THEN "Mature (Adult Maint.)"
    ELSE "Mixed/School Phase"
system_phase(R23, R24) ==
    IF Above(R23, 1, 2) THEN "Mature (Adult Maint.)"
    ELSE IF Above(R24, 1, 5) THEN "Expansion (Births)"
    ELSE "Mixed/School Phase"

\* Lines 632-663, on one row.
calculate_age_bucket_analytics(row) ==
    LET c == row.counters
        R23 == Frac(c.demo_age_17_ + c.bio_age_17_, c.Grand_Total)
        R24 == Frac(c.age_0_5, c.Grand_Total)
    IN [counters |-> c, ratios |-> row.ratios, Region |-> row.Region,
        CV_Volatility |-> row.CV_Volatility,
        age |-> [R21_Child_Bio_Intensity |-> Frac(c.bio_age_5_17, c.demo_age_5_17 + 1),
                 R22_Adult_Bio_Intensity |-> Frac(c.bio_age_17_, c.demo_age_17_ + 1),
                 R23_Adult_Workload_Share |-> R23,
                 R24_Infant_Enrol_Share |-> R24],
        System_Phase |-> system_phase(R23, R24)]

InitFinal ==
    /\ UploadIdle
    /\ districtFile = [exists |-> FALSE, lines |-> DistrictLines]
    /\ ScriptIdle
    /\ CleanIdle
    /\ AggIdle
    /\ sessions = NoSessions
    /\ full_csv \in SeqsUpTo(FileRows, MaxFileRows)
    /\ csv_df = <<>>
    /\ final_df = NoTable
    /\ finalPc = "start"

FinalStep(from, to) ==
    /\ finalPc = from
    /\ finalPc' = to
    /\ UNCHANGED <<full_csv, uploadVars, scriptVars, cleanVars, aggVars, sessions>>

\* Lines 732-735.
ReadAndClean == FinalStep("start", "cleaned") /\ csv_df' = clean_data(full_csv) /\ UNCHANGED final_df
\* Lines 741-751.
MergeDuplicates == FinalStep("cleaned", "merged") /\ final_df' = merge_duplicates(csv_df) /\ UNCHANGED csv_df
\* Lines 754-756.
RecalculateRatios ==
    /\ FinalStep("merged", "recalculated")
    /\ final_df' = [k \in DOMAIN final_df |-> recalculate_ratios(final_df[k])]
    /\ UNCHANGED csv_df
\* Lines 759-761.
AgeBucketAnalytics ==
    /\ FinalStep("recalculated", "returned")
    /\ final_df' = [k \in DOMAIN final_df |-> calculate_age_bucket_analytics(final_df[k])]
    /\ UNCHANGED csv_df

NextFinal ==
    \/ ReadAndClean
    \/ MergeDuplicates
    \/ RecalculateRatios
    \/ AgeBucketAnalytics

SpecFinal == InitFinal /\ [][NextFinal]_vars

(***************************************************************************)
(* The two merges of the repository side by side: the upload handler's     *)
(* merge of a batch into the master and process_final_data's merge of the  *)
(* rows of the aggregate file.  A behaviour is one of the upload handler   *)
(* or one of process_final_data.                                           *)
(***************************************************************************)
InitMerge == Init \/ InitFinal
NextMerge == (finalPc = "idle" /\ Next) \/ NextFinal
SpecMerge == InitMerge /\ [][NextMerge]_vars

(***************************************************************************)
(* C11  Collision summing on merge.                                        *)
(***************************************************************************)
\* The key of a row of the master or of an uploaded batch: its state and its
\* trimmed district.
UploadKey(row) == <<AsStr(row["state"]), Strip(AsStr(row["district"]))>>
RowsWithKey(rows, k) == {i \in DOMAIN rows : UploadKey(rows[i]) = k}
FinalKey(r) == <<r.state, r.district>>
MergedStages == {"merged", "recalculated", "returned"}
AdditiveFields ==
    {"age_0_5", "age_5_17", "age_18_greater", "demo_age_5_17", "demo_age_17_",
     "bio_age_5_17", "bio_age_17_", "Enrol_Total", "Update_Total", "Grand_Total"}

\* C11 as stated, for the upload handler: after a pass that merged the batch
\* into an existing master, a key that a row of the batch shares with a row of
\* the master has exactly one row in the merged master.
C11_CollisionSummingAsStated ==
    (Admitted /\ masterBefore.exists /\ {"state", "district"} \subseteq master.cols)
        => \A i \in DOMAIN masterBefore.rows : \A j \in DOMAIN new_data.rows :
              UploadKey(masterBefore.rows[i]) = UploadKey(new_data.rows[j])
                  => Cardinality(RowsWithKey(master.rows, UploadKey(new_data.rows[j]))) = 1

\* C11 amended: process_final_data's merge leaves exactly one row for every
\* (state, district) of the cleaned rows, and each counter and total of that
\* row is the sum of that field over the cleaned rows of the key; the upload
\* handler's merge appends the rows of the batch to the rows of the master, so
\* that rows of one key stay separate rows.
C11_CollisionSumming ==
    /\ finalPc \in MergedStages =>
        /\ DOMAIN final_df = {FinalKey(csv_df[i]) : i \in DOMAIN csv_df}
        /\ \A k \in DOMAIN final_df : \A f \in AdditiveFields :
              LET idx == {i \in DOMAIN csv_df : FinalKey(csv_df[i]) = k}
              IN final_df[k].counters[f] = SumOver([i \in idx |-> csv_df[i].counters[f]], idx)
    /\ (Admitted /\ masterBefore.exists) => master.rows = masterBefore.rows \o new_data.rows

\* Two rows of the file under different district names that the cleaning puts
\* on one key, merged into one row.
C11_Witness ==
    /\ finalPc = "merged"
    /\ \E i, j \in DOMAIN full_csv :
        /\ full_csv[i].district # full_csv[j].district
        /\ FinalKey(csv_df[i]) = FinalKey(csv_df[j])
        /\ final_df[FinalKey(csv_df[i])].counters.Grand_Total
              = full_csv[i].counters.Grand_Total + full_csv[j].counters.Grand_Total
        /\ full_csv[i].counters.Grand_Total > 0
        /\ full_csv[j].counters.Grand_Total > 0

(***************************************************************************)
(* C12  Ratios recomputed after merge.                                     *)
(***************************************************************************)
\* The total of the field f over the cleaned rows of the key k.
MergedTotal(k, f) ==
    LET idx == {i \in DOMAIN csv_df : FinalKey(csv_df[i]) = k}
    IN SumOver([i \in idx |-> csv_df[i].counters[f]], idx)
\* The sum over the cleaned rows of the key k of the stored ratio f.
RECURSIVE StoredRatioSum(_, _, _)
StoredRatioSum(k, f, n) ==
    IF n = 0 THEN Frac(0, 1)
    ELSE IF FinalKey(csv_df[n]) = k
         THEN FracAdd(csv_df[n].ratios[f], StoredRatioSum(k, f, n - 1))
         ELSE StoredRatioSum(k, f, n - 1)

\* C12: once process_final_data has recalculated the ratios, UER_Score,
\* Adult_Entry_Rate and Catch_Up_Index of every row are the quotients of the
\* row's merged totals, and in the rows it returns the four age-bucket ratios
\* are the quotients of the merged totals as well; what the ratio columns of the
\* input rows held has no part in them.
C12_RatiosRecomputed ==
    /\ finalPc \in {"recalculated", "returned"} =>
        \A k \in DOMAIN final_df :
            /\ final_df[k].ratios.UER_Score
                  = Frac(MergedTotal(k, "Update_Total"), MergedTotal(k, "Enrol_Total") + 1)
            /\ final_df[k].ratios.Adult_Entry_Rate
                  = Frac(MergedTotal(k, "age_18_greater"), MergedTotal(k, "Enrol_Total") + 1)
            /\ final_df[k].ratios.Catch_Up_Index
                  = Frac(MergedTotal(k, "age_5_17"), MergedTotal(k, "age_0_5") + 1)
    /\ finalPc = "returned" =>
        \A k \in DOMAIN final_df :
            /\ final_df[k].age.R21_Child_Bio_Intensity
                  = Frac(MergedTotal(k, "bio_age_5_17"), MergedTotal(k, "demo_age_5_17") + 1)
            /\ final_df[k].age.R22_Adult_Bio_Intensity
                  = Frac(MergedTotal(k, "bio_age_17_"), MergedTotal(k, "demo_age_17_") + 1)
            /\ final_df[k].age.R23_Adult_Workload_Share
                  = Frac(MergedTotal(k, "demo_age_17_") + MergedTotal(k, "bio_age_17_"),
                         MergedTotal(k, "Grand_Total"))
            /\ final_df[k].age.R24_Infant_Enrol_Share
                  = Frac(MergedTotal(k, "age_0_5"), MergedTotal(k, "Grand_Total"))

\* A returned row merged from two rows of the file whose stored UER_Score add
\* up to something else than the UER_Score of the merged totals.
C12_Witness ==
    /\ finalPc = "returned"
    /\ \E k \in DOMAIN final_df :
        /\ Cardinality({i \in DOMAIN csv_df : FinalKey(csv_df[i]) = k}) > 1
        /\ StoredRatioSum(k, "UER_Score", Len(csv_df)) # final_df[k].ratios.UER_Score
        /\ \A i \in DOMAIN csv_df :
              FinalKey(csv_df[i]) = k => csv_df[i].ratios.UER_Score # final_df[k].ratios.UER_Score

(***************************************************************************)
(* C13  Coefficient of variation after merge.                              *)
(***************************************************************************)
\* The cleaned rows of the key k that have a stored CV_Volatility.
WithVolatility(k) ==
    {i \in DOMAIN csv_df : FinalKey(csv_df[i]) = k /\ csv_df[i].CV_Volatility # NaN}
\* The sum of the CV_Volatility stored in the first n cleaned rows of the key k.
RECURSIVE StoredVolatilitySum(_, _)
StoredVolatilitySum(k, n) ==
    IF n = 0 THEN Frac(0, 1)
    ELSE IF n \in WithVolatility(k)
         THEN FracAdd(csv_df[n].CV_Volatility, StoredVolatilitySum(k, n - 1))
         ELSE StoredVolatilitySum(k, n - 1)

\* C13 as stated: the CV_Volatility of a row merged from rows with different
\* stored values is neither the sum nor the average of the stored values.
C13_VolatilityRederivedAsStated ==
    finalPc \in MergedStages =>
        \A k \in DOMAIN final_df :
            (\E i, j \in WithVolatility(k) : csv_df[i].CV_Volatility # csv_df[j].CV_Volatility)
                => /\ final_df[k].CV_Volatility # StoredVolatilitySum(k, Len(csv_df))
                   /\ final_df[k].CV_Volatility
                         # FracDiv(StoredVolatilitySum(k, Len(csv_df)), Cardinality(WithVolatility(k)))

\* C13 amended: the CV_Volatility of a merged row is the average of the values
\* stored in the rows of its key, the rows without a value left out (and no
\* value when none has one); when two of them differ it is not their sum.
C13_VolatilityAveraged ==
    finalPc \in MergedStages =>
        \A k \in DOMAIN final_df :
            /\ WithVolatility(k) = {} => final_df[k].CV_Volatility = NaN
            /\ WithVolatility(k) # {} =>
                  final_df[k].CV_Volatility
                      = FracDiv(StoredVolatilitySum(k, Len(csv_df)), Cardinality(WithVolatility(k)))
            /\ (\E i, j \in WithVolatility(k) : csv_df[i].CV_Volatility # csv_df[j].CV_Volatility)
                  => final_df[k].CV_Volatility # StoredVolatilitySum(k, Len(csv_df))

\* A returned row merged from three rows of the file, two with different
\* stored values and one without.
C13_Witness ==
    /\ finalPc = "returned"
    /\ \E k \in DOMAIN final_df :
        /\ \E i, j \in WithVolatility(k) : csv_df[i].CV_Volatility # csv_df[j].CV_Volatility
        /\ \E i \in DOMAIN csv_df : FinalKey(csv_df[i]) = k /\ i \notin WithVolatility(k)
        /\ final_df[k].CV_Volatility = Frac(1, 1)

(***************************************************************************)
(* The upload handler of main.py run by several sessions of the page on    *)
(* one master file.  Streamlit runs the script of every session in its own *)
(* thread and the handler takes no lock, so the steps of two passes can    *)
(* come in any order; a step is what the handler does between two accesses *)
(* to the files.  A session is [pc, new_data, updated_df, outcome].        *)
(***************************************************************************)
MaxSessions == 2

\* The files the sessions upload: a batch every check passes, one that passes
\* when the district file is absent, one with a negative count and one with a
\* column the master does not have.
SessionBatches ==
    {[cols |-> StdCols, rows |-> <<RowOf(StdCols, Str(" Agra "), Num(1), Num(1))>>],
     [cols |-> StdCols, rows |-> <<RowOf(StdCols, Str("Foo"), Num(1), Num(1))>>],
     [cols |-> StdCols, rows |-> <<RowOf(StdCols, Str(" Agra "), Num(1), Num(-1))>>],
     [cols |-> StdCols \cup {"remarks"},
      rows |-> <<RowOf(StdCols \cup {"remarks"}, Str(" Agra "), Num(1), Num(1))>>]}

InitConcurrent ==
    /\ master \in {NoMaster, ShippedMaster}
    /\ districtFile \in {[exists |-> e, lines |-> DistrictLines] : e \in BOOLEAN}
    /\ new_data = NoUpload
    /\ masterBefore = master
    /\ outcome = "none"
    /\ checksRun = <<>>
    /\ report = NoReport
    /\ model = NoModel
    /\ ScriptIdle
    /\ CleanIdle
    /\ AggIdle
    /\ FinalIdle
    /\ sessions \in [1..MaxSessions ->
                        {[pc |-> "button", new_data |-> b, updated_df |-> NoMaster, outcome |-> "none"] :
                            b \in SessionBatches}]

\* Session s goes from the step `from` to the step `to` with the outcome o and
\* the local DataFrame u.
SessionStep(s, from, to, o, u) ==
    /\ sessions[s].pc = from
    /\ sessions' = [sessions EXCEPT ![s] = [pc |-> to, new_data |-> sessions[s].new_data,
                                             updated_df |-> u, outcome |-> o]]
    /\ UNCHANGED <<districtFile, new_data, masterBefore, outcome, checksRun, report,
                   scriptVars, cleanVars, aggVars, finalVars>>

\* Lines 364-386: the header of the master file is compared with the upload.
CheckColumns(s) ==
    /\ IF column_mismatch(master, sessions[s].new_data)
       THEN SessionStep(s, "button", "done", "column_mismatch", NoMaster)
       ELSE SessionStep(s, "button", "validate", "none", NoMaster)
    /\ UNCHANGED <<master, model>>

\* Lines 388-405: the validation block.
Validate(s) ==
    /\ LET v == Validation(sessions[s].new_data, districtFile) IN
        IF v.error # ""
        THEN SessionStep(s, "validate", "done", v.error, NoMaster)
        ELSE SessionStep(s, "validate", "read", "none", NoMaster)
    /\ UNCHANGED <<master, model>>

\* Lines 409-413: the master file is read and the upload appended to it, in
\* the session's memory.
ReadMaster(s) ==
    /\ SessionStep(s, "read", "write", "none", merge(master, sessions[s].new_data))
    /\ UNCHANGED <<master, model>>

\* Line 415: updated_df.to_csv(MASTER_DATA_PATH).
WriteMaster(s) ==
    /\ SessionStep(s, "write", "retrain", "none", sessions[s].updated_df)
    /\ master' = sessions[s].updated_df
    /\ UNCHANGED model

\* Lines 418-421: train_and_save_model reads the master file as it is now.
Retrain(s) ==
    /\ IF features_and_targets \subseteq master.cols
       THEN /\ SessionStep(s, "retrain", "done", "retrained", sessions[s].updated_df)
            /\ model' = [exists |-> TRUE, trainedOn |-> master.rows]
       ELSE /\ SessionStep(s, "retrain", "done", "unexpected_error", sessions[s].updated_df)
            /\ UNCHANGED model
    /\ UNCHANGED master

NextConcurrent ==
    \/ \E s \in DOMAIN sessions : CheckColumns(s)
    \/ \E s \in DOMAIN sessions : Validate(s)
    \/ \E s \in DOMAIN sessions : ReadMaster(s)
    \/ \E s \in DOMAIN sessions : WriteMaster(s)
    \/ \E s \in DOMAIN sessions : Retrain(s)

SpecConcurrent == InitConcurrent /\ [][NextConcurrent]_vars

(***************************************************************************)
(* C14  Concurrent passes over the master table do not interleave.         *)
(***************************************************************************)
\* How many times the row r is in the sequence of rows q.
Occurrences(q, r) == Cardinality({i \in DOMAIN q : q[i] = r})
\* The sessions whose pass got through the validation.
Validated == {s \in DOMAIN sessions : sessions[s].outcome \in {"retrained", "unexpected_error"}}
AllDone == \A s \in DOMAIN sessions : sessions[s].pc = "done"
\* C14: when the passes of all sessions have ended, the master table holds
\* every row of the initial master and every row of the batch of every session
\* that passed validation, each as many times as these hold it.
C14_NoLostMerge ==
    AllDone =>
        \A s \in Validated : \A i \in DOMAIN sessions[s].new_data.rows :
            LET r == sessions[s].new_data.rows[i]
                Held(t) == IF t \in Validated THEN Occurrences(sessions[t].new_data.rows, r) ELSE 0
            IN Occurrences(master.rows, r)
                  >= Occurrences(masterBefore.rows, r)
                        + SumOver([t \in DOMAIN sessions |-> Held(t)], DOMAIN sessions)

(***************************************************************************)
(* C15  Sentinel exclusion.                                                *)
(***************************************************************************)
\* C15: no record of the DataFrame clean_data returns has the state or the
\* district 'Unknown' or '100000', and none has a district that the lexical
\* cleanup left empty.
C15_SentinelExclusion ==
    cleanPc = "returned" =>
        \A i \in DOMAIN cdf :
            /\ cdf[i].state \notin Sentinels
            /\ cdf[i].district \notin Sentinels
            /\ cdf[i].district # ""

\* The part of C15 about the two sentinels alone.
C15_SentinelsRemoved ==
    cleanPc = "returned" =>
        \A i \in DOMAIN cdf : cdf[i].state \notin Sentinels /\ cdf[i].district \notin Sentinels

(***************************************************************************)
(* C16  Low-volume rows.                                                   *)
(***************************************************************************)
\* The cleaned records of all three categories with the key k, and the sum of
\* all their counters.
RecordsOfKey(k) ==
    SelectSeq(enrol_df \o demo_df \o bio_df, LAMBDA r : <<r.state, r.district>> = k)
RECURSIVE CounterSum(_)
CounterSum(q) ==
    IF q = <<>> THEN 0
    ELSE SumOver(q[1].v, DOMAIN q[1].v) + CounterSum(Tail(q))
CleanedKeys ==
    {<<r.state, r.district>> : r \in {(enrol_df \o demo_df \o bio_df)[i] :
                                         i \in DOMAIN (enrol_df \o demo_df \o bio_df)}}

\* C16: once the run has produced both tables, a key of the cleaned records is
\* in the table of calculate_metrics exactly when the sum of all its counters
\* is above 500, and every key of the cleaned records is in the table of
\* export_full_district_data.
C16_LowVolumeRows ==
    aggPc = "exported" =>
        /\ DOMAIN metrics_df = {k \in CleanedKeys : CounterSum(RecordsOfKey(k)) > 500}
        /\ DOMAIN full_df = CleanedKeys
        /\ \A k \in CleanedKeys : full_df[k].counters.Grand_Total = CounterSum(RecordsOfKey(k))

\* A run with a key whose counters add up to 500 exactly, absent from the
\* metrics and present in the aggregate, and a key above 500, present in both.
C16_Witness ==
    /\ aggPc = "exported"
    /\ \E k \in DOMAIN full_df :
        /\ full_df[k].counters.Grand_Total = 500
        /\ k \notin DOMAIN metrics_df
    /\ \E k \in DOMAIN full_df :
        /\ full_df[k].counters.Grand_Total > 500
        /\ k \in DOMAIN metrics_df

(***************************************************************************)
(* C17  Denominator offset.                                                *)
(***************************************************************************)
\* C17: in every row process_final_data returns, every ratio is the quotient
\* by a strictly positive denominator: none is infinite or undefined, whatever
\* the non-negative counters of the row, all zero included.
C17_DenominatorOffset ==
    finalPc = "returned" =>
        \A k \in DOMAIN final_df :
            /\ \A f \in DOMAIN final_df[k].ratios : final_df[k].ratios[f].den > 0
            /\ \A f \in DOMAIN final_df[k].age : final_df[k].age[f].den > 0

\* The ratios that lines 640-643 and 754-756 compute with the offset are finite
\* in every returned row.
C17_OffsetRatiosFinite ==
    finalPc = "returned" =>
        \A k \in DOMAIN final_df :
            /\ \A f \in DOMAIN final_df[k].ratios : final_df[k].ratios[f].den > 0
            /\ final_df[k].age.R21_Child_Bio_Intensity.den > 0
            /\ final_df[k].age.R22_Adult_Bio_Intensity.den > 0

(***************************************************************************)
(* C18  Phase label.                                                       *)
(***************************************************************************)
\* The adult updates and the infant enrolments of the key k as shares of its
\* merged Grand_Total are above p / q.
AdultShareAbove(k, p, q) ==
    /\ MergedTotal(k, "Grand_Total") > 0
    /\ (MergedTotal(k, "demo_age_17_") + MergedTotal(k, "bio_age_17_")) * q
          > p * MergedTotal(k, "Grand_Total")
InfantShareAbove(k, p, q) ==
    /\ MergedTotal(k, "Grand_Total") > 0
    /\ MergedTotal(k, "age_0_5") * q > p * MergedTotal(k, "Grand_Total")

MaxDistricts == 4

\* Enrolment records of five districts with the adult entry rates 0.01, 0.02,
\* 0.015, 0.5 and 0, the last with 1000 enrolments, and a demographic record.
DistrictRecords ==
    { RawRow("enrol", "Bihar", "Patna", "15-01-2025", <<989, 0, 10>>),
      RawRow("enrol", "Bihar", "Gaya", "15-01-2025", <<979, 0, 20>>),
      RawRow("enrol", "Uttar Pradesh", "Agra", "15-01-2025", <<984, 0, 15>>),
      RawRow("enrol", "Maharashtra", "Pune", "15-01-2025", <<499, 0, 500>>),
      RawRow("enrol", "Bihar", "Pune", "15-01-2025", <<1000, 0, 0>>),
      RawRow("demo", "Bihar", "Patna", "15-01-2025", <<3, 4>>) }

InitMetrics ==
    /\ UploadIdle
    /\ districtFile = [exists |-> FALSE, lines |-> DistrictLines]
    /\ ScriptIdle
    /\ CleanIdle
    /\ FinalIdle
    /\ sessions = NoSessions
    /\ batchA \in {q \in SeqsUpTo(DistrictRecords, MaxDistricts) :
                      q # <<>> /\ \A i, j \in DOMAIN q : i # j => q[i] # q[j]}
    /\ batchB = <<>>
    /\ enrol_df = <<>>
    /\ demo_df = <<>>
    /\ bio_df = <<>>
    /\ aggPc = "start"
    /\ master_ts = NoTable
    /\ metrics_df = NoTable
    /\ full_df = NoTable

SpecMetrics == InitMetrics /\ [][NextAgg]_vars

(***************************************************************************)
(* C19  Z-score ranking.                                                   *)
(***************************************************************************)
\* The adult entry rate of the key k, from the cleaned enrolment records.
AdultRate(k) ==
    LET e == SelectSeq(enrol_df, LAMBDA r : <<r.state, r.district>> = k)
    IN Frac(ColSum(e, 3), CounterSum(e) + 1)
MetricsDone == aggPc \in {"metrics", "exported"}

\* C19: in the table calculate_metrics returned, the z-score of every row is
\* the row's adult entry rate less the mean of the rates of the table, over the
\* table's standard deviation plus epsilon; the row whose rate is above the
\* rate of every other row has a z-score above the z-score of every other row
\* and is the first row of insight 3.
C19_ZScoreRanking ==
    MetricsDone =>
        LET rate == [k \in DOMAIN metrics_df |-> AdultRate(k)]
        IN \A k \in DOMAIN metrics_df :
            /\ metrics_df[k].R7_Adult_ZScore.deviation
                  = FracSub(rate[k], FracDiv(ColumnSum(rate, DOMAIN rate), Cardinality(DOMAIN rate)))
            /\ (\A j \in DOMAIN metrics_df \ {k} : FracSub(rate[k], rate[j]).num > 0)
                  => /\ \A j \in DOMAIN metrics_df \ {k} :
                            ZScoreAbove(metrics_df[k].R7_Adult_ZScore, metrics_df[j].R7_Adult_ZScore)
                     /\ top_anomalous(metrics_df) = {k}

\* The table with the rates 0.01, 0.02, 0.015 and 0.5: the row with 0.5 is the
\* first of insight 3.
C19_Witness ==
    /\ aggPc = "metrics"
    /\ {metrics_df[k].ratios.R4_Adult_Entry_Rate : k \in DOMAIN metrics_df}
          = {Frac(1, 100), Frac(2, 100), Frac(15, 1000), Frac(5, 10)}
    /\ \E k \in DOMAIN metrics_df :
        /\ metrics_df[k].ratios.R4_Adult_Entry_Rate = Frac(5, 10)
        /\ top_anomalous(metrics_df) = {k}
        /\ \A j \in DOMAIN metrics_df \ {k} :
              ZScoreAbove(metrics_df[k].R7_Adult_ZScore, metrics_df[j].R7_Adult_ZScore)

(***************************************************************************)
(* C20  Zero-denominator scenario.                                         *)
(***************************************************************************)
\* main.py 298-300: the ghost proxy the dashboard shows for a row.
ghost_proxy(row) == Frac(row.Enrol_Total, row.Update_Total + 1)

\* The enrolments and the updates of the key k, from the cleaned records.
EnrolmentsOf(k) == CounterSum(SelectSeq(enrol_df, LAMBDA r : <<r.state, r.district>> = k))
UpdatesOf(k) == CounterSum(SelectSeq(demo_df \o bio_df, LAMBDA r : <<r.state, r.district>> = k))

\* C20: a key with no update and 1000 enrolments is in the table of
\* calculate_metrics with the ghost proxy 1000; the ghost proxy of every row of
\* the table is the finite quotient of its enrolments by its updates plus one,
\* and so is the ghost proxy the dashboard computes from a row of the aggregate.
C20_ZeroDenominator ==
    /\ MetricsDone =>
        /\ \A k \in CleanedKeys :
              (UpdatesOf(k) = 0 /\ EnrolmentsOf(k) = 1000)
                  => k \in DOMAIN metrics_df /\ metrics_df[k].ratios.R6_Ghost_Proxy = Frac(1000, 1)
        /\ \A k \in DOMAIN metrics_df :
              /\ metrics_df[k].ratios.R6_Ghost_Proxy = Frac(EnrolmentsOf(k), UpdatesOf(k) + 1)
              /\ metrics_df[k].ratios.R6_Ghost_Proxy.den > 0
    /\ aggPc = "exported" =>
        \A k \in DOMAIN full_df :
            /\ ghost_proxy(full_df[k].counters) = Frac(EnrolmentsOf(k), UpdatesOf(k) + 1)
            /\ ghost_proxy(full_df[k].counters).den > 0

\* A table with a row of 1000 enrolments and no update beside a row with
\* updates.
C20_Witness ==
    /\ aggPc = "exported"
    /\ \E k \in DOMAIN metrics_df :
        /\ metrics_df[k].counters.Update_Total = 0
        /\ metrics_df[k].counters.Enrol_Total = 1000
        /\ metrics_df[k].ratios.R6_Ghost_Proxy = Frac(1000, 1)
        /\ ghost_proxy(full_df[k].counters) = Frac(1000, 1)
    /\ \E k \in DOMAIN metrics_df : metrics_df[k].counters.Update_Total > 0

(***************************************************************************)
(* C21  Stage order.                                                       *)
(***************************************************************************)
\* The DataFrame the call of clean_data in progress (or just returned) was
\* given, for the first two calls.
FirstTwoPasses == cleanPasses <= 1 \/ (cleanPasses = 2 /\ cleanPc = "returned")
PassInput ==
    IF cleanPasses = 0 \/ (cleanPasses = 1 /\ cleanPc = "returned") THEN <<cleanIn>> ELSE cleanFirst

\* C21: at each stage of a call of clean_data on a record, the DataFrame holds
\* the record with (1) its district cleaned lexically, then (2) its state
\* corrected, then (3) its state reassigned by the rules evaluated on the
\* corrected state and on the district not yet corrected, then (4) its district
\* corrected (the record dropped when the district is 'Unknown'), then (5)
\* dropped when its state or district is a sentinel.
C21_StageOrder ==
    (FirstTwoPasses /\ PassInput # <<>>) =>
        LET r == PassInput[1]
            d1 == lexical_cleanup(r.district)
            s2 == Replace(state_map, r.state)
            s3 == ApplyRules(reassignments, 1, s2, d1)
            d4 == Replace(district_map, d1)
        IN /\ cleanPc = "lexical" => cdf = <<[state |-> r.state, district |-> d1]>>
           /\ cleanPc = "state_corrected" => cdf = <<[state |-> s2, district |-> d1]>>
           /\ cleanPc = "reassigned" => cdf = <<[state |-> s3, district |-> d1]>>
           /\ cleanPc = "district_corrected" =>
                 cdf = IF d4 = "Unknown" THEN <<>> ELSE <<[state |-> s3, district |-> d4]>>
           /\ cleanPc = "returned" =>
                 cdf = IF d4 \in Sentinels \/ s3 \in Sentinels THEN <<>>
                       ELSE <<[state |-> s3, district |-> d4]>>

\* A first call returns (Andhra Pradesh, Mahabub Nagar) for the raw district
\* 'Mahbubnagar': the rule that moves 'Mahabub Nagar' to Telangana was evaluated
\* on the spelling before the district correction.
C21_Witness ==
    /\ cleanPc = "returned"
    /\ cleanPasses = 1
    /\ cleanIn = [state |-> "andhra pradesh", district |-> "Mahbubnagar"]
    /\ cdf = <<[state |-> "Andhra Pradesh", district |-> "Mahabub Nagar"]>>

(***************************************************************************)
(* C22  District-name correction is keyed by the corrected state.          *)
(***************************************************************************)
\* The district a first call of clean_data returns for the raw record
\* (state, district); "" when the record is dropped.
CleanedDistrict(state, district) ==
    LET out == clean_data(<<[state |-> state, district |-> district]>>)
    IN IF out = <<>> THEN "" ELSE out[1].district

\* C22: the raw district 'Aurangabad' resolves under Bihar to another name
\* than under Maharashtra, and the raw district 'Bijapur' under Chhattisgarh to
\* another name than under Karnataka.
C22_StateKeyedCorrection ==
    (cleanPc = "returned" /\ cleanPasses = 1 /\ cdf # <<>>) =>
        /\ cleanIn = [state |-> "Bihar", district |-> "Aurangabad"]
              => cdf[1].district # CleanedDistrict("Maharashtra", "Aurangabad")
        /\ cleanIn = [state |-> "Chhattisgarh", district |-> "Bijapur"]
              => cdf[1].district # CleanedDistrict("Karnataka", "Bijapur")

\* The district correction of the code looks at the district alone: a first
\* call gives one raw district the same name under every state it keeps.
C22_DistrictAloneDecides ==
    (cleanPc = "returned" /\ cleanPasses = 1 /\ cdf # <<>>) =>
        cdf[1].district = Replace(district_map, lexical_cleanup(cleanIn.district))

(***************************************************************************)
(* C23  Pair-keyed reassignment.                                           *)
(***************************************************************************)
\* Some rule names the pair (state, district).
RuleFor(state, district) ==
    \E i \in DOMAIN reassignments :
        reassignments[i].old = state /\ district \in reassignments[i].districts

\* C23: when the reassignment stage of a call has run, the district of the
\* record is the one it had before the stage, and its state is the one it had
\* before the stage unless a rule names that state together with that district.
C23_PairKeyedReassignment ==
    (FirstTwoPasses /\ PassInput # <<>> /\ cleanPc = "reassigned") =>
        LET before == [state |-> Replace(state_map, PassInput[1].state),
                       district |-> lexical_cleanup(PassInput[1].district)]
        IN /\ cdf[1].district = before.district
           /\ ~RuleFor(before.state, before.district) => cdf[1].state = before.state
           /\ RuleFor(before.state, before.district) => cdf[1].state # before.state

\* 'Hyderabad', a member of the Telangana transfer set, under Karnataka: the
\* stage has run and the record is still in Karnataka.
C23_Witness ==
    /\ cleanPc = "reassigned"
    /\ cleanPasses = 0
    /\ cleanIn = [state |-> "Karnataka", district |-> "Hyderabad *"]
    /\ cdf = <<[state |-> "Karnataka", district |-> "Hyderabad"]>>

(***************************************************************************)
(* C24  Case-insensitive fallback.                                         *)
(***************************************************************************)
UpperCase == <<"A", "B", "C", "D", "E", "F", "G", "H", "I", "J", "K", "L", "M",
               "N", "O", "P", "Q", "R", "S", "T", "U", "V", "W", "X", "Y", "Z">>
LowerCase == <<"a", "b", "c", "d", "e", "f", "g", "h", "i", "j", "k", "l", "m",
               "n", "o", "p", "q", "r", "s", "t", "u", "v", "w", "x", "y", "z">>
LowerChar(c) ==
    IF \E i \in DOMAIN UpperCase : UpperCase[i] = c
    THEN LowerCase[CHOOSE i \in DOMAIN UpperCase : UpperCase[i] = c]
    ELSE c
\* The string s with its letters in lower case.
RECURSIVE Lower(_)
Lower(s) == IF Len(s) = 0 THEN "" ELSE LowerChar(SubSeq(s, 1, 1)) \o Lower(SubSeq(s, 2, Len(s)))

\* The canonical values of the keys of a correction table that are the name x
\* up to letter case.
LoweredStateKeys == [k \in Keys(state_map_items) |-> Lower(k)]
LoweredDistrictKeys == [k \in Keys(district_map_items) |-> Lower(k)]
StateValuesIgnoringCase(x) ==
    {state_map[k] : k \in {j \in DOMAIN LoweredStateKeys : LoweredStateKeys[j] = Lower(x)}}
DistrictValuesIgnoringCase(x) ==
    {district_map[k] : k \in {j \in DOMAIN LoweredDistrictKeys : LoweredDistrictKeys[j] = Lower(x)}}

\* C24: after the state correction of a first call, a state that is a key of
\* the state table up to letter case has the canonical value of such a key;
\* after the district correction, a district that is a key of the district
\* table up to letter case has the canonical value of such a key (or the
\* record is dropped).
C24_CaseInsensitiveFallback ==
    cleanPasses = 0 =>
        /\ (cleanPc = "state_corrected" /\ StateValuesIgnoringCase(cleanIn.state) # {})
              => cdf[1].state \in StateValuesIgnoringCase(cleanIn.state)
        /\ (cleanPc = "district_corrected" /\ cdf # <<>>
                /\ DistrictValuesIgnoringCase(lexical_cleanup(cleanIn.district)) # {})
              => cdf[1].district \in DistrictValuesIgnoringCase(lexical_cleanup(cleanIn.district))

\* What the code does: a name is corrected when it is a key of the table letter
\* for letter, and left as it is otherwise.
C24_ExactMatchOnly ==
    cleanPasses = 0 =>
        /\ cleanPc = "state_corrected" =>
              cdf[1].state = IF cleanIn.state \in Keys(state_map_items)
                             THEN state_map[cleanIn.state] ELSE cleanIn.state
        /\ (cleanPc = "district_corrected" /\ cdf # <<>>) =>
              LET d == lexical_cleanup(cleanIn.district)
              IN cdf[1].district = IF d \in Keys(district_map_items) THEN district_map[d] ELSE d

(***************************************************************************)
(* C25  Order of the reassignment rules.                                   *)
(***************************************************************************)
\* The rules with the rules i and j exchanged, and the rules in reverse order.
Exchanged(rules, i, j) ==
    [n \in DOMAIN rules |-> IF n = i THEN rules[j] ELSE IF n = j THEN rules[i] ELSE rules[n]]
Reversed(rules) == [n \in DOMAIN rules |-> rules[Len(rules) + 1 - n]]
\* The rules whose condition the pair (state, district) satisfies.
Applicable(state, district) ==
    {i \in DOMAIN reassignments :
        reassignments[i].old = state /\ district \in reassignments[i].districts}
\* Evaluating the rules in another order gives the pair another final state.
OrderMatters(state, district) ==
    \/ ApplyRules(Reversed(reassignments), 1, state, district)
          # ApplyRules(reassignments, 1, state, district)
    \/ \E i \in DOMAIN reassignments : \E j \in (i + 1)..Len(reassignments) :
          ApplyRules(Exchanged(reassignments, i, j), 1, state, district)
              # ApplyRules(reassignments, 1, state, district)

\* C25 as stated: the rules the reassignment stage has run are such that some
\* pair of a state and a district that they name satisfies the condition of
\* more than one rule and gets another final state when they are evaluated in
\* another order.
C25_OrderDependentAsStated ==
    cleanPc = "reassigned" =>
        \E st \in RuleStates : \E d \in RuleDistricts :
            Cardinality(Applicable(st, d)) > 1 /\ OrderMatters(st, d)

\* C25 amended: the record the reassignment stage has run on satisfied the
\* condition of at most one rule, and its state is the one the rules give in
\* reverse order and with any two rules exchanged.
C25_OrderIndependent ==
    (FirstTwoPasses /\ PassInput # <<>> /\ cleanPc = "reassigned") =>
        LET st == Replace(state_map, PassInput[1].state)
            d == lexical_cleanup(PassInput[1].district)
        IN /\ Cardinality(Applicable(st, d)) <= 1
           /\ ~OrderMatters(st, d)
           /\ cdf[1].state = ApplyRules(Reversed(reassignments), 1, st, d)

\* A record of the Telangana transfer set under Andhra Pradesh, moved.
C25_Witness ==
    /\ cleanPc = "reassigned"
    /\ cleanPasses = 0
    /\ cleanIn = [state |-> "andhra pradesh", district |-> "Hyderabad *"]
    /\ cdf = <<[state |-> "Telangana", district |-> "Hyderabad"]>>

(***************************************************************************)
(* C26  Reassignment is complete after one pass.                           *)
(***************************************************************************)
\* C26: no record a first call of clean_data returns has a state and a
\* district that a reassignment rule names together.
C26_ReassignmentComplete ==
    (cleanPc = "returned" /\ cleanPasses = 1) =>
        \A i \in DOMAIN cdf : ~RuleFor(cdf[i].state, cdf[i].district)

(***************************************************************************)
(* C27  Model follows master.                                              *)
(***************************************************************************)
\* C27: after a pass that changed the master table, and after a pass that
\* reported the model retrained, the model file holds a model trained on the
\* rows the master table holds now.
C27_ModelFollowsMaster ==
    (PassDone /\ (master # masterBefore \/ outcome = "retrained"))
        => model.exists /\ model.trainedOn = master.rows

\* The part of C27 about the passes that report the model retrained.
C27_ReportedRetrainIsOnMaster ==
    outcome = "retrained" => model.exists /\ model.trainedOn = master.rows

(***************************************************************************)
(* C28  Region follows state.                                              *)
(***************************************************************************)
\* C28: in every row process_final_data has merged, the Region is the one the
\* region map gives for the state of the row ('Other' for a state the map
\* does not have).
C28_RegionFollowsState ==
    finalPc \in MergedStages =>
        \A k \in DOMAIN final_df : final_df[k].Region = RegionOf(k[1])

\* The rows whose state the second clean_data left alone do carry the Region
\* of their state.
C28_RegionOfUnchangedState ==
    finalPc \in MergedStages =>
        \A k \in DOMAIN final_df :
            (\A i \in DOMAIN full_csv :
                 <<csv_df[i].state, csv_df[i].district>> = k => full_csv[i].state = k[1])
                => final_df[k].Region = RegionOf(k[1])

(***************************************************************************)
(* C29  Totals stay consistent through merge.                              *)
(***************************************************************************)
\* The three equalities of lines 590-593 on the counters c of a row.
TotalsConsistent(c) ==
    /\ c.Enrol_Total = c.age_0_5 + c.age_5_17 + c.age_18_greater
    /\ c.Update_Total = c.demo_age_5_17 + c.demo_age_17_ + c.bio_age_5_17 + c.bio_age_17_
    /\ c.Grand_Total = c.Enrol_Total + c.Update_Total

\* C29: when every row of the file has Enrol_Total, Update_Total and
\* Grand_Total equal to the sums of its counters, so has every row
\* process_final_data has merged, recalculated or returned.
C29_TotalsConsistent ==
    (finalPc \in MergedStages /\ \A i \in DOMAIN full_csv : TotalsConsistent(full_csv[i].counters))
        => \A k \in DOMAIN final_df : TotalsConsistent(final_df[k].counters)

\* A returned row merged from two rows of the file that both have enrolments
\* and updates.
C29_Witness ==
    /\ finalPc = "returned"
    /\ \E i, j \in DOMAIN full_csv :
        /\ i # j
        /\ FinalKey(csv_df[i]) = FinalKey(csv_df[j])
        /\ full_csv[i].counters.Enrol_Total > 0 /\ full_csv[j].counters.Enrol_Total > 0
        /\ full_csv[i].counters.Update_Total > 0 /\ full_csv[j].counters.Update_Total > 0
        /\ TotalsConsistent(full_csv[i].counters) /\ TotalsConsistent(full_csv[j].counters)
        /\ final_df[FinalKey(csv_df[i])].counters.Grand_Total
              > full_csv[i].counters.Grand_Total

(***************************************************************************)
(* C30  No dead correction rule.                                           *)
(***************************************************************************)
\* The district strings lines 63-68 can leave are the strings the lexical
\* cleanup does not change: the cleanup of a cleaned string is that string.
AfterLexicalCleanup(k) == lexical_cleanup(k) = k
\* The keys of the district table and the members of the Telangana transfer
\* set that no cleaned district can equal.
DeadKeys == {k \in Keys(district_map_items) \cup ts_districts : ~AfterLexicalCleanup(k)}

\* C30: once the lexical cleanup has run, every key of the district correction
\* table and every member of the Telangana transfer set is a string the
\* cleanup can have left in the district column, and none holds a non-ASCII
\* character.
C30_NoDeadRule ==
    cleanPc = "lexical" =>
        \A k \in Keys(district_map_items) \cup ts_districts :
            /\ AfterLexicalCleanup(k)
            /\ remove_non_ascii(k) = k

\* The dead keys are the four spellings with non-ASCII characters; every other
\* key and member is a string the cleanup can leave.
C30_DeadKeysAreNonAscii ==
    cleanPc = "lexical" =>
        /\ DeadKeys = {"Medchal~Malkajgiri", "Manendragarh~~hirmiri~~haratpur",
                       "Medchal~~~malkajgiri", "Medchal~~alkajgiri"}
        /\ \A i \in DOMAIN cdf : cdf[i].district \notin DeadKeys

====
